---- MODULE Spec2Model ----
(***************************************************************************)
(* Constrained hidden Markov model (po-gl/ConstrainedHiddenMarkovModel).   *)
(*                                                                         *)
(* Strings are sequences of one-character strings, so that splitting,      *)
(* case folding and first-letter tests are computed and not assumed.       *)
(* An f64 weight is an exact non-negative rational <<n, d>> in lowest      *)
(* terms: the model has no rounding, overflow or underflow.                *)
(***************************************************************************)
EXTENDS Integers, Sequences, FiniteSets, Bags, TLC

----------------------------------------------------------------------------
(* Bounds of the explored inputs.                                          *)

MaxSeqLen == 2      \* largest sequence_length of the generated constraint lists
MaxLines == 1       \* largest number of lines of a generated corpus
MaxBaseLines == 2   \* the same, for the corpora of the base model alone
RandDen == 2        \* thread_rng().gen() draws k / RandDen, 0 <= k < RandDen
MaxLineLen == 2     \* largest number of tokens of a generated corpus line
MaxOrder == 2       \* largest markov_order of a base model

----------------------------------------------------------------------------
(* f64 arithmetic on exact rationals.                                      *)

RECURSIVE Gcd(_, _)
Gcd(a, b) == IF b = 0 THEN a ELSE Gcd(b, a % b)

Rat(n, d) == IF n = 0 THEN <<0, 1>> ELSE <<n \div Gcd(n, d), d \div Gcd(n, d)>>

Zero == <<0, 1>>
One == <<1, 1>>

f64_add(x, y) == Rat(x[1] * y[2] + y[1] * x[2], x[2] * y[2])
f64_mul(x, y) == Rat(x[1] * y[1], x[2] * y[2])
\* Only used with y # Zero: every division of the source is guarded by a
\* non-zero sum, or divides by a sum of positive counts.
f64_div(x, y) == Rat(x[1] * y[2], x[2] * y[1])
f64_gt(x, y) == x[1] * y[2] > y[1] * x[2]

\* outer_value.values().sum::<f64>()
RECURSIVE SumOver(_, _)
SumOver(m, keys) ==
    IF keys = {} THEN Zero
    ELSE LET k == CHOOSE x \in keys : TRUE
         IN f64_add(m[k], SumOver(m, keys \ {k}))

values_sum(m) == SumOver(m, DOMAIN m)

----------------------------------------------------------------------------
(* Strings.                                                                *)

START_TOKEN == <<"<", "<", "S", "T", "A", "R", "T", ">", ">">>

UpperChars == <<"A","B","C","D","E","F","G","H","I","J","K","L","M",
                "N","O","P","Q","R","S","T","U","V","W","X","Y","Z">>
LowerChars == <<"a","b","c","d","e","f","g","h","i","j","k","l","m",
                "n","o","p","q","r","s","t","u","v","w","x","y","z">>

to_ascii_lowercase(c) ==
    IF \E i \in 1..26 : UpperChars[i] = c
    THEN LowerChars[CHOOSE i \in 1..26 : UpperChars[i] = c]
    ELSE c

\* The letters with a lowercase form outside ASCII are represented by one pair.
UnicodeUpperChars == <<"É">>
UnicodeLowerChars == <<"é">>

\* char::to_lowercase, on the letters above
char_to_lowercase(c) ==
    IF \E i \in 1..Len(UnicodeUpperChars) : UnicodeUpperChars[i] = c
    THEN UnicodeLowerChars[CHOOSE i \in 1..Len(UnicodeUpperChars) : UnicodeUpperChars[i] = c]
    ELSE to_ascii_lowercase(c)

\* String::to_lowercase (the context-dependent and multi-character mappings
\* of Unicode do not occur among the letters above)
to_lowercase(s) == [i \in 1..Len(s) |-> char_to_lowercase(s[i])]

\* the k-th smallest element of a set of positions
Nth(positions, k) ==
    CHOOSE i \in positions : Cardinality({j \in positions : j < i}) = k - 1

\* str::split(sep): the pieces between the separators, empty pieces included
split(s, sep) ==
    LET seps == {i \in 1..Len(s) : s[i] = sep}
        n == Cardinality(seps)
        from(k) == IF k = 1 THEN 1 ELSE Nth(seps, k - 1) + 1
        to(k) == IF k = n + 1 THEN Len(s) ELSE Nth(seps, k) - 1
    IN [k \in 1..(n + 1) |-> SubSeq(s, from(k), to(k))]

IsWhitespace(c) == c \in {" ", "\t", "\n", "\r"}

\* str::split_whitespace(): the maximal runs of non-whitespace characters
split_whitespace(s) ==
    LET starts == {i \in 1..Len(s) :
                      ~IsWhitespace(s[i]) /\ (i = 1 \/ IsWhitespace(s[i - 1]))}
        ends == {i \in 1..Len(s) :
                      ~IsWhitespace(s[i]) /\ (i = Len(s) \/ IsWhitespace(s[i + 1]))}
    IN [k \in 1..Cardinality(starts) |-> SubSeq(s, Nth(starts, k), Nth(ends, k))]

\* the pieces pushed one after the other, each followed by sep, last sep popped
RECURSIVE JoinFrom(_, _, _)
JoinFrom(pieces, sep, i) ==
    IF i > Len(pieces) THEN <<>>
    ELSE IF i = Len(pieces) THEN pieces[i]
    ELSE pieces[i] \o <<sep>> \o JoinFrom(pieces, sep, i + 1)

Join(pieces, sep) == JoinFrom(pieces, sep, 1)

----------------------------------------------------------------------------
(* Constraints.                                                            *)

EmptyConstraint_new == [type |-> "Empty"]
\* the target stored as given, without case folding
MatchesConstraint_new_verbatim(state) == [type |-> "Matches", state |-> state]

MatchesConstraint_new(state) == [type |-> "Matches", state |-> to_lowercase(state)]
StartsWithLetterConstraint_new(letter) == [type |-> "StartsWithLetter", letter |-> letter]
MultiConstraint_new(constraints, require_all) ==
    [type |-> "Multi", constraints |-> constraints, require_all |-> require_all]

\* require_all ignored: a MultiConstraint is satisfied as soon as one child is
RECURSIVE is_satisfied_by_state_any(_, _)
is_satisfied_by_state_any(c, state) ==
    CASE c.type = "Empty" -> TRUE
      [] c.type = "Matches" -> to_lowercase(state) = c.state
      [] c.type = "StartsWithLetter" ->
            IF Len(state) = 0 THEN FALSE
            ELSE to_ascii_lowercase(state[1]) = to_ascii_lowercase(c.letter)
      [] c.type = "Multi" ->
            \E i \in 1..Len(c.constraints) :
                is_satisfied_by_state_any(c.constraints[i], state)

RECURSIVE is_satisfied_by_state(_, _)
is_satisfied_by_state(c, state) ==
    CASE c.type = "Empty" -> TRUE
      [] c.type = "Matches" -> to_lowercase(state) = c.state
      [] c.type = "StartsWithLetter" ->
            IF Len(state) = 0 THEN FALSE
            ELSE to_ascii_lowercase(state[1]) = to_ascii_lowercase(c.letter)
      [] c.type = "Multi" ->
            IF c.require_all
            THEN \A i \in 1..Len(c.constraints) :
                    is_satisfied_by_state(c.constraints[i], state)
            ELSE \E i \in 1..Len(c.constraints) :
                    is_satisfied_by_state(c.constraints[i], state)

----------------------------------------------------------------------------
(* The constraint parser.                                                  *)

RhymesWithConstraint_new(word) == [type |-> "RhymesWith", word |-> to_lowercase(word)]

starts_with(s, prefix) == Len(s) >= Len(prefix) /\ SubSeq(s, 1, Len(prefix)) = prefix

\* Regex ^XX\((.*)\) : the prefix, an opening parenthesis, and a closing one later
captures(s, prefix) ==
    /\ starts_with(s, prefix \o <<"(">>)
    /\ \E i \in (Len(prefix) + 2)..Len(s) : s[i] = ")"

\* capture[1]: the greedy (.*) runs up to the last closing parenthesis
capture(s, prefix) ==
    LET last == CHOOSE i \in (Len(prefix) + 2)..Len(s) :
                    s[i] = ")" /\ \A j \in (i + 1)..Len(s) : s[j] # ")"
    IN SubSeq(s, Len(prefix) + 2, last - 1)

\* str_to_constraint; Panic when chars().nth(0).unwrap() meets None
str_to_constraint(str) ==
    IF captures(str, <<"S", "W">>)
    THEN IF capture(str, <<"S", "W">>) = <<>>
         THEN [panicked |-> TRUE, constraint |-> EmptyConstraint_new]
         ELSE [panicked |-> FALSE,
               constraint |-> StartsWithLetterConstraint_new(capture(str, <<"S", "W">>)[1])]
    ELSE IF captures(str, <<"R", "W">>)
    THEN [panicked |-> FALSE,
          constraint |-> RhymesWithConstraint_new(capture(str, <<"R", "W">>))]
    ELSE IF starts_with(str, <<"N", "C">>)
    THEN [panicked |-> FALSE, constraint |-> EmptyConstraint_new]
    ELSE [panicked |-> FALSE, constraint |-> MatchesConstraint_new(str)]

DigitChars == <<"0", "1", "2", "3", "4", "5", "6", "7", "8", "9">>
IsDigit(c) == \E i \in 1..10 : DigitChars[i] = c
DigitValue(c) == (CHOOSE i \in 1..10 : DigitChars[i] = c) - 1

RECURSIVE DecimalValue(_, _, _)
DecimalValue(digits, i, acc) ==
    IF i > Len(digits) THEN acc
    ELSE DecimalValue(digits, i + 1, 10 * acc + DigitValue(digits[i]))

I32_MAX == 2147483647

\* str::parse::<i32>(): an optional sign, then at least one digit, within i32
parse_i32(s) ==
    LET signed == Len(s) > 0 /\ s[1] \in {"+", "-"}
        digits == IF signed THEN SubSeq(s, 2, Len(s)) ELSE s
        value == IF signed /\ s[1] = "-" THEN 0 - DecimalValue(digits, 1, 0)
                 ELSE DecimalValue(digits, 1, 0)
        ok == /\ Len(digits) > 0
              /\ \A i \in 1..Len(digits) : IsDigit(digits[i])
              /\ value >= (0 - I32_MAX) - 1
              /\ value <= I32_MAX
    IN [ok |-> ok, value |-> IF ok THEN value ELSE 0]

\* for _ in 0..count { v.push(constraint_type.clone()) }
push_copies(v, constraint, count) ==
    v \o [k \in 1..(IF count > 0 THEN count ELSE 0) |-> constraint]

\* the copies pushed to the hidden list alone
add_multi_constraint_hidden_only(line, lists) ==
    LET line_split == split(line, "*")
        constraint_type == str_to_constraint(line_split[1])
        count == IF Len(line_split) >= 2 THEN parse_i32(line_split[2])
                 ELSE [ok |-> FALSE, value |-> 0]
    IN IF constraint_type.panicked \/ ~count.ok
       THEN [lists EXCEPT !.panicked = TRUE]
       ELSE [lists EXCEPT
                !.hidden = push_copies(@, constraint_type.constraint, count.value)]

\* add_multi_constraint; Panic on a missing or non-numeric count
add_multi_constraint(line, lists) ==
    LET line_split == split(line, "*")
        constraint_type == str_to_constraint(line_split[1])
        count == IF Len(line_split) >= 2 THEN parse_i32(line_split[2])
                 ELSE [ok |-> FALSE, value |-> 0]
    IN IF constraint_type.panicked \/ ~count.ok
       THEN [lists EXCEPT !.panicked = TRUE]
       ELSE [lists EXCEPT
                !.hidden = push_copies(@, constraint_type.constraint, count.value),
                !.observed = push_copies(@, constraint_type.constraint, count.value)]

\* add_constraint; Panic when the second unwrap() meets None (no ':' in line)
add_constraint(line, lists) ==
    LET line_split == split(line, ":")
    IN IF Len(line_split) < 2 THEN [lists EXCEPT !.panicked = TRUE]
       ELSE LET observed == str_to_constraint(line_split[1])
                hidden == str_to_constraint(line_split[2])
            IN IF observed.panicked \/ hidden.panicked
               THEN [lists EXCEPT !.panicked = TRUE]
               ELSE [lists EXCEPT !.observed = Append(@, observed.constraint),
                                  !.hidden = Append(@, hidden.constraint)]

contains(s, c) == \E i \in 1..Len(s) : s[i] = c

RECURSIVE parse_lines(_, _, _)
parse_lines(lines, i, lists) ==
    IF i > Len(lines) \/ lists.panicked THEN lists
    ELSE IF lines[i] = <<>> THEN parse_lines(lines, i + 1, lists)
    ELSE IF contains(lines[i], "*")
    THEN parse_lines(lines, i + 1, add_multi_constraint(lines[i], lists))
    ELSE parse_lines(lines, i + 1, add_constraint(lines[i], lists))

\* parse_constraint(constraint_string)
parse_constraint(constraint_string) ==
    parse_lines(split(constraint_string, "\n"), 1,
                [panicked |-> FALSE, hidden |-> <<>>, observed |-> <<>>])

----------------------------------------------------------------------------
(* HiddenMarkov: the base model.                                           *)

\* split_token; Panic when the second unwrap() meets None (no ':' in token)
split_token_ok(token) == token = START_TOKEN \/ Len(split(token, ":")) >= 2

split_token(token) ==
    IF token = START_TOKEN THEN <<START_TOKEN, START_TOKEN>>
    ELSE <<split(token, ":")[1], split(token, ":")[2]>>

\* the count of a pair seen for the first time starts at 1 and is then incremented
increment_map_counting_from_one(map, outer, inner) ==
    LET row == IF outer \in DOMAIN map THEN map[outer] ELSE <<>>
        old == IF inner \in DOMAIN row THEN row[inner] ELSE One
        newRow == [k \in DOMAIN row \cup {inner} |->
                      IF k = inner THEN f64_add(old, One) ELSE row[k]]
    IN [k \in DOMAIN map \cup {outer} |-> IF k = outer THEN newRow ELSE map[k]]

\* entry(outer).or_insert(HashMap::new()); entry(inner).or_insert(0.0); += 1.0
increment_map(map, outer, inner) ==
    LET row == IF outer \in DOMAIN map THEN map[outer] ELSE <<>>
        old == IF inner \in DOMAIN row THEN row[inner] ELSE Zero
        newRow == [k \in DOMAIN row \cup {inner} |->
                      IF k = inner THEN f64_add(old, One) ELSE row[k]]
    IN [k \in DOMAIN map \cup {outer} |-> IF k = outer THEN newRow ELSE map[k]]

increment_hidden(hmm, hidden, next_hidden) ==
    [hmm EXCEPT !.hidden_probs = increment_map(@, hidden, next_hidden)]

increment_observed(hmm, hidden, observed) ==
    [hmm EXCEPT !.observed_probs = increment_map(@, hidden, observed)]

\* the emission is counted under the label before it
increment_emission_under_context(hmm, tokens, next_tokens) ==
    LET n == IF Len(tokens) < Len(next_tokens) THEN Len(tokens) ELSE Len(next_tokens)
    IN IF \E i \in 1..n : ~split_token_ok(tokens[i]) \/ ~split_token_ok(next_tokens[i])
       THEN [hmm EXCEPT !.panicked = TRUE]
       ELSE LET full_hidden == Join([i \in 1..n |-> split_token(tokens[i])[2]], " ")
                full_next_hidden == Join([i \in 1..n |-> split_token(next_tokens[i])[2]], " ")
                full_next_observed == Join([i \in 1..n |-> split_token(next_tokens[i])[1]], " ")
            IN increment_observed(increment_hidden(hmm, full_hidden, full_next_hidden),
                                  full_hidden, full_next_observed)

increment(hmm, tokens, next_tokens) ==
    LET n == IF Len(tokens) < Len(next_tokens) THEN Len(tokens) ELSE Len(next_tokens)
    IN IF \E i \in 1..n : ~split_token_ok(tokens[i]) \/ ~split_token_ok(next_tokens[i])
       THEN [hmm EXCEPT !.panicked = TRUE]
       ELSE LET full_hidden == Join([i \in 1..n |-> split_token(tokens[i])[2]], " ")
                full_next_hidden == Join([i \in 1..n |-> split_token(next_tokens[i])[2]], " ")
                full_next_observed == Join([i \in 1..n |-> split_token(next_tokens[i])[1]], " ")
            IN increment_observed(increment_hidden(hmm, full_hidden, full_next_hidden),
                                  full_next_hidden, full_next_observed)

\* every window of markov_order consecutive tokens is counted, one token apart
RECURSIVE process_tokens_sliding(_, _, _, _, _, _)
process_tokens_sliding(hmm, tokens, token, curr_token, is_first_token, markov_count) ==
    IF tokens = <<>> \/ hmm.panicked THEN hmm
    ELSE LET token1 == Append(token, Head(tokens))
             count1 == markov_count + 1
         IN IF count1 >= hmm.markov_order
            THEN LET prev_token == IF is_first_token
                                   THEN [i \in 1..hmm.markov_order |-> START_TOKEN]
                                   ELSE curr_token
                 IN process_tokens_sliding(increment(hmm, prev_token, token1),
                                           Tail(tokens), Tail(token1), token1, FALSE,
                                           count1 - 1)
            ELSE process_tokens_sliding(hmm, Tail(tokens), token1, curr_token,
                                        is_first_token, count1)

RECURSIVE process_tokens(_, _, _, _, _, _)
process_tokens(hmm, tokens, token, curr_token, is_first_token, markov_count) ==
    IF tokens = <<>> \/ hmm.panicked THEN hmm
    ELSE LET token1 == Append(token, Head(tokens))
             count1 == markov_count + 1
         IN IF count1 >= hmm.markov_order
            THEN LET prev_token == IF is_first_token
                                   THEN [i \in 1..hmm.markov_order |-> START_TOKEN]
                                   ELSE curr_token
                 IN process_tokens(increment(hmm, prev_token, token1),
                                   Tail(tokens), <<>>, token1, FALSE, 0)
            ELSE process_tokens(hmm, Tail(tokens), token1, curr_token,
                                is_first_token, count1)

process_line(hmm, line) ==
    process_tokens(hmm, split_whitespace(line), <<>>, <<>>, TRUE, 0)

RECURSIVE process_lines(_, _, _)
process_lines(hmm, lines, i) ==
    IF i > Len(lines) THEN hmm
    ELSE process_lines(process_line(hmm, lines[i]), lines, i + 1)

normalize_nested_map(map) ==
    [outer \in DOMAIN map |->
        [inner \in DOMAIN map[outer] |-> f64_div(map[outer][inner], values_sum(map[outer]))]]

normalize(hmm) ==
    [hmm EXCEPT !.hidden_probs = normalize_nested_map(@),
                !.observed_probs = normalize_nested_map(@)]

HiddenMarkov_clear_probs(hmm) ==
    [hmm EXCEPT !.hidden_probs = <<>>, !.observed_probs = <<>>]

HiddenMarkov_train(hmm, data) ==
    LET counted == process_lines(HiddenMarkov_clear_probs(hmm), split(data, "\n"), 1)
    IN IF counted.panicked THEN counted ELSE normalize(counted)

HiddenMarkov_new(markov_order, data) ==
    HiddenMarkov_train([markov_order |-> markov_order, hidden_probs |-> <<>>,
                        observed_probs |-> <<>>, panicked |-> FALSE], data)

\* HiddenMarkov::get_sequence_probability: the product, or Panic on a missing key
RECURSIVE hmm_probability_from(_, _, _, _, _)
hmm_probability_from(hmm, tokens, i, curr_hidden, product) ==
    IF i > Len(tokens) THEN [kind |-> "value", value |-> product]
    ELSE IF ~split_token_ok(tokens[i]) THEN [kind |-> "panic"]
    ELSE LET token_observed == split_token(tokens[i])[1]
             token_hidden == split_token(tokens[i])[2]
         IN IF /\ curr_hidden \in DOMAIN hmm.hidden_probs
               /\ token_hidden \in DOMAIN hmm.hidden_probs[curr_hidden]
               /\ token_hidden \in DOMAIN hmm.observed_probs
               /\ token_observed \in DOMAIN hmm.observed_probs[token_hidden]
            THEN hmm_probability_from(hmm, tokens, i + 1, token_hidden,
                    f64_mul(f64_mul(product, hmm.hidden_probs[curr_hidden][token_hidden]),
                            hmm.observed_probs[token_hidden][token_observed]))
            ELSE [kind |-> "panic"]

HiddenMarkov_get_sequence_probability(hmm, sequence) ==
    hmm_probability_from(hmm, split_whitespace(sequence), 1, START_TOKEN, One)

----------------------------------------------------------------------------
(* ConstrainedHiddenMarkov: the positional model.  A Vec index i of the    *)
(* source is the sequence index i + 1 here.                                *)

\* the tables of an earlier train() are kept
clear_probs_skipped(chmm) == chmm

ConstrainedHiddenMarkov_clear_probs(chmm) ==
    [chmm EXCEPT !.hidden_probs = <<>>, !.observed_probs = <<>>]

\* Vec::insert(i, x) with i <= len
vec_insert(v, i, x) == SubSeq(v, 1, i) \o <<x>> \o SubSeq(v, i + 1, Len(v))

RECURSIVE duplicate_from(_, _)
duplicate_from(chmm, i) ==
    IF i >= chmm.sequence_length THEN chmm
    ELSE duplicate_from(
            [chmm EXCEPT
                !.hidden_probs = vec_insert(@, i, chmm.hidden_markov_model.hidden_probs),
                !.observed_probs = vec_insert(@, i, chmm.hidden_markov_model.observed_probs)],
            i + 1)

duplicate_matrices(chmm) == duplicate_from(chmm, 0)

\* the inner keys that fail the constraint are removed from their rows
mask_matrix_removing(matrix, constraint) ==
    [outer \in DOMAIN matrix |->
        [inner \in {k \in DOMAIN matrix[outer] : is_satisfied_by_state(constraint, k)} |->
            matrix[outer][inner]]]

\* the constraint test inverted: the satisfying inner keys are zeroed
mask_matrix_inverted(matrix, constraint) ==
    [outer \in DOMAIN matrix |->
        [inner \in DOMAIN matrix[outer] |->
            IF is_satisfied_by_state(constraint, inner) THEN Zero
            ELSE matrix[outer][inner]]]

\* the constraint tested on the outer key: whole rows are zeroed
mask_matrix_by_context(matrix, constraint) ==
    [outer \in DOMAIN matrix |->
        [inner \in DOMAIN matrix[outer] |->
            IF ~is_satisfied_by_state(constraint, outer) THEN Zero
            ELSE matrix[outer][inner]]]

\* zero every inner weight whose inner key fails the constraint
mask_matrix(matrix, constraint) ==
    [outer \in DOMAIN matrix |->
        [inner \in DOMAIN matrix[outer] |->
            IF ~is_satisfied_by_state(constraint, inner) THEN Zero
            ELSE matrix[outer][inner]]]

remove_constrain_violating_hidden_states(chmm) ==
    [chmm EXCEPT !.hidden_probs =
        [p \in 1..Len(@) |->
            IF p <= Len(chmm.hidden_constraints)
            THEN mask_matrix(@[p], chmm.hidden_constraints[p]) ELSE @[p]]]

\* the positions share one table: every constraint masks every position
RECURSIVE mask_matrix_with_all(_, _, _)
mask_matrix_with_all(matrix, constraints, i) ==
    IF i > Len(constraints) THEN matrix
    ELSE mask_matrix_with_all(mask_matrix(matrix, constraints[i]), constraints, i + 1)

remove_constrain_violating_observed_states_aliased(chmm) ==
    [chmm EXCEPT !.observed_probs =
        [p \in 1..Len(@) |-> mask_matrix_with_all(@[p], chmm.observed_constraints, 1)]]

remove_constrain_violating_observed_states(chmm) ==
    [chmm EXCEPT !.observed_probs =
        [p \in 1..Len(@) |->
            IF p <= Len(chmm.observed_constraints)
            THEN mask_matrix(@[p], chmm.observed_constraints[p]) ELSE @[p]]]

\* the observed constraints are never applied
remove_constrain_violating_states_hidden_only(chmm) ==
    remove_constrain_violating_hidden_states(chmm)

remove_constrain_violating_states(chmm) ==
    remove_constrain_violating_observed_states(
        remove_constrain_violating_hidden_states(chmm))

get_zero_sum_outer_keys(probability_matrix) ==
    {outer_key \in DOMAIN probability_matrix :
        values_sum(probability_matrix[outer_key]) = Zero}

\* the first loop left out
remove_emission_dead_skipped(chmm) == chmm

\* first loop of remove_dead_states: every position is treated on its own
remove_emission_dead(chmm) ==
    [chmm EXCEPT !.hidden_probs =
        [p \in 1..Len(@) |->
            LET states_to_remove_in_curr == get_zero_sum_outer_keys(chmm.observed_probs[p])
            IN [outer \in DOMAIN @[p] |->
                  [inner \in DOMAIN @[p][outer] |->
                      IF inner \in states_to_remove_in_curr THEN Zero
                      ELSE @[p][outer][inner]]]]]

\* the second loop without the test current_hidden.get(inner_key).is_none()
RECURSIVE remove_transition_dead_from_zero_sum_only(_, _)
remove_transition_dead_from_zero_sum_only(hidden_probs, p) ==
    IF p < 2 THEN hidden_probs
    ELSE LET current_hidden == hidden_probs[p]
             states_to_remove_in_prev == get_zero_sum_outer_keys(current_hidden)
             previous_hidden == hidden_probs[p - 1]
             pruned == [outer \in DOMAIN previous_hidden |->
                          [inner \in DOMAIN previous_hidden[outer] |->
                              IF inner \in states_to_remove_in_prev
                              THEN Zero ELSE previous_hidden[outer][inner]]]
         IN remove_transition_dead_from_zero_sum_only(
                [hidden_probs EXCEPT ![p - 1] = pruned], p - 1)

\* every position pruned against the next position's table as the first loop
\* left it, and not as the sweep has updated it
remove_transition_dead_from_stale(hidden_probs, p) ==
    [q \in 1..Len(hidden_probs) |->
        IF q >= p THEN hidden_probs[q]
        ELSE [outer \in DOMAIN hidden_probs[q] |->
                [inner \in DOMAIN hidden_probs[q][outer] |->
                    IF \/ inner \in get_zero_sum_outer_keys(hidden_probs[q + 1])
                       \/ inner \notin DOMAIN hidden_probs[q + 1]
                    THEN Zero ELSE hidden_probs[q][outer][inner]]]]

\* the tables go from masking to renormalize as they are
remove_dead_states_skipped(chmm) == chmm

\* second loop of remove_dead_states, for i = p - 1 down to 1
RECURSIVE remove_transition_dead_from(_, _)
remove_transition_dead_from(hidden_probs, p) ==
    IF p < 2 THEN hidden_probs
    ELSE LET current_hidden == hidden_probs[p]
             states_to_remove_in_prev == get_zero_sum_outer_keys(current_hidden)
             previous_hidden == hidden_probs[p - 1]
             pruned == [outer \in DOMAIN previous_hidden |->
                          [inner \in DOMAIN previous_hidden[outer] |->
                              IF \/ inner \in states_to_remove_in_prev
                                 \/ inner \notin DOMAIN current_hidden
                              THEN Zero ELSE previous_hidden[outer][inner]]]
         IN remove_transition_dead_from(
                [hidden_probs EXCEPT ![p - 1] = pruned], p - 1)

remove_dead_states(chmm) ==
    LET step1 == remove_emission_dead(chmm)
    IN [step1 EXCEPT !.hidden_probs = remove_transition_dead_from(@, Len(@))]

\* alphas[i+1].get(inner_key), None => 0.0
alpha_or_zero(alphas_next, key) ==
    IF key \in DOMAIN alphas_next THEN alphas_next[key] ELSE Zero

\* the downstream mass alpha is left out at every position
renormalize_term_without_alpha(st, p, row, inner_key, is_last) ==
    f64_mul(st.betas[p][inner_key], row[inner_key])

\* the emission mass beta is left out at the last position
renormalize_term_without_beta(st, p, row, inner_key, is_last) ==
    IF is_last THEN row[inner_key]
    ELSE f64_mul(f64_mul(st.betas[p][inner_key],
                         alpha_or_zero(st.alphas[p + 1], inner_key)),
                 row[inner_key])

\* betas[i][inner_key] * alpha * inner_value, alpha omitted at the last position
renormalize_term(st, p, row, inner_key, is_last) ==
    IF is_last THEN f64_mul(st.betas[p][inner_key], row[inner_key])
    ELSE f64_mul(f64_mul(st.betas[p][inner_key],
                         alpha_or_zero(st.alphas[p + 1], inner_key)),
                 row[inner_key])

\* the weighted row is stored without the division by its sum
renormalize_hidden_row_undivided(st, p, row, is_last) ==
    LET terms == [inner_key \in DOMAIN row |-> renormalize_term(st, p, row, inner_key, is_last)]
        sum == values_sum(terms)
    IN [alpha |-> sum, row |-> IF sum # Zero THEN terms ELSE row]

renormalize_hidden_row(st, p, row, is_last) ==
    LET terms == [inner_key \in DOMAIN row |-> renormalize_term(st, p, row, inner_key, is_last)]
        sum == values_sum(terms)
    IN [alpha |-> sum,
        row |-> IF sum # Zero
                THEN [inner_key \in DOMAIN row |-> f64_div(terms[inner_key], sum)]
                ELSE row]

\* the emission row is left as masked, never rescaled
renormalize_observed_row_unscaled(row) == row

renormalize_observed_row(row) ==
    LET sum == values_sum(row)
    IN IF sum # Zero THEN [inner \in DOMAIN row |-> f64_div(row[inner], sum)] ELSE row

\* betas[i][inner_key] indexes a HashMap: Panic when the key is missing
renormalize_panics(chmm) ==
    \E p \in 1..chmm.sequence_length :
        \/ p > Len(chmm.hidden_probs) \/ p > Len(chmm.observed_probs)
        \/ \E outer \in DOMAIN chmm.hidden_probs[p] :
              \E inner \in DOMAIN chmm.hidden_probs[p][outer] :
                  inner \notin DOMAIN chmm.observed_probs[p]

\* one iteration of the loop of renormalize, for position index p
renormalize_position(st, p) ==
    LET L == Len(st.betas)    \* betas is vec![HashMap::new(); self.sequence_length]
        betas1 == [st.betas EXCEPT ![p] =
                     [k \in DOMAIN st.observed_probs[p] |-> values_sum(st.observed_probs[p][k])]]
        st1 == [st EXCEPT !.betas = betas1,
                          !.observed_probs[p] =
                              [k \in DOMAIN @ |-> renormalize_observed_row(@[k])]]
        rows == [k \in DOMAIN st.hidden_probs[p] |->
                    renormalize_hidden_row(st1, p, st.hidden_probs[p][k], p = L)]
    IN [st1 EXCEPT !.alphas[p] = [k \in DOMAIN rows |-> rows[k].alpha],
                   !.hidden_probs[p] = [k \in DOMAIN rows |-> rows[k].row]]

RECURSIVE renormalize_from(_, _)
renormalize_from(st, p) ==
    IF p < 1 THEN st ELSE renormalize_from(renormalize_position(st, p), p - 1)

\* the state of renormalize when its loop ends: the tables, betas and alphas
renormalize_state(chmm) ==
    renormalize_from([hidden_probs |-> chmm.hidden_probs,
                      observed_probs |-> chmm.observed_probs,
                      betas |-> [p \in 1..chmm.sequence_length |-> <<>>],
                      alphas |-> [p \in 1..chmm.sequence_length |-> <<>>]],
                     chmm.sequence_length)

renormalize(chmm) ==
    IF renormalize_panics(chmm) THEN [chmm EXCEPT !.panicked = TRUE]
    ELSE [chmm EXCEPT !.hidden_probs = renormalize_state(chmm).hidden_probs,
                      !.observed_probs = renormalize_state(chmm).observed_probs]

ConstrainedHiddenMarkov_train(chmm) ==
    renormalize(remove_dead_states(remove_constrain_violating_states(
        duplicate_matrices(ConstrainedHiddenMarkov_clear_probs(chmm)))))

\* the draw is compared with >= : a key of weight zero can be returned
RECURSIVE next_token_from_inclusive(_, _, _, _, _)
next_token_from_inclusive(prev_token_map, order, rand_value, j, sum) ==
    IF j > Len(order) THEN <<>>
    ELSE LET sum1 == f64_add(sum, prev_token_map[order[j]])
         IN IF ~f64_gt(rand_value, sum1) THEN order[j]
            ELSE next_token_from_inclusive(prev_token_map, order, rand_value, j + 1, sum1)

\* next_token: the map is walked in HashMap iteration order (order), the
\* weights are accumulated, the first key whose running sum exceeds
\* rand_value is returned, "" when there is none
RECURSIVE next_token_from(_, _, _, _, _)
next_token_from(prev_token_map, order, rand_value, j, sum) ==
    IF j > Len(order) THEN <<>>
    ELSE LET sum1 == f64_add(sum, prev_token_map[order[j]])
         IN IF f64_gt(sum1, rand_value) THEN order[j]
            ELSE next_token_from(prev_token_map, order, rand_value, j + 1, sum1)

next_token(prev_token_map, order, rand_value) ==
    next_token_from(prev_token_map, order, rand_value, 1, Zero)

\* the iteration orders a HashMap with these keys can have
RECURSIVE Orders(_)
Orders(keys) ==
    IF keys = {} THEN {<<>>}
    ELSE UNION {{<<k>> \o rest : rest \in Orders(keys \ {k})} : k \in keys}

\* draws from the closed interval [0, 1]
RandValuesClosed == {Rat(k, RandDen) : k \in 0..RandDen}

\* the values rand::thread_rng().gen::<f64>() is drawn from: [0, 1)
RandValues == {Rat(k, RandDen) : k \in 0..(RandDen - 1)}

next_token_results(prev_token_map) ==
    {next_token(prev_token_map, order, r) :
        order \in Orders(DOMAIN prev_token_map), r \in RandValues}

\* sample_sequence that puts a space after every token, the last included
RECURSIVE sample_from_space_after_each(_, _, _, _)
sample_from_space_after_each(chmm, i, curr_hidden, sequence) ==
    IF i >= chmm.sequence_length THEN {sequence}
    ELSE IF curr_hidden \notin DOMAIN chmm.hidden_probs[i + 1] THEN {sequence}
    ELSE UNION {
        IF hidden \in DOMAIN chmm.observed_probs[i + 1]
        THEN UNION {
                sample_from_space_after_each(chmm, i + 1, hidden,
                    sequence \o observed \o <<":">> \o hidden \o <<" ">>) :
                observed \in next_token_results(chmm.observed_probs[i + 1][hidden])}
        ELSE sample_from_space_after_each(chmm, i + 1, hidden, sequence) :
        hidden \in next_token_results(chmm.hidden_probs[i + 1][curr_hidden])}

\* sample_sequence from loop index i on: every string some draws return
RECURSIVE sample_from(_, _, _, _)
sample_from(chmm, i, curr_hidden, sequence) ==
    IF i >= chmm.sequence_length THEN {sequence}
    ELSE IF curr_hidden \notin DOMAIN chmm.hidden_probs[i + 1] THEN {sequence}
    ELSE UNION {
        IF hidden \in DOMAIN chmm.observed_probs[i + 1]
        THEN UNION {
                sample_from(chmm, i + 1, hidden,
                    sequence \o observed \o <<":">> \o hidden
                        \o (IF i # chmm.sequence_length - 1 THEN <<" ">> ELSE <<>>)) :
                observed \in next_token_results(chmm.observed_probs[i + 1][hidden])}
        ELSE sample_from(chmm, i + 1, hidden, sequence) :
        hidden \in next_token_results(chmm.hidden_probs[i + 1][curr_hidden])}

sample_sequence(chmm) == sample_from(chmm, 0, START_TOKEN, <<>>)

\* ConstrainedHiddenMarkov::get_sequence_probability: the product, or Panic
\* on a Vec index out of range or a missing HashMap key
RECURSIVE probability_from(_, _, _, _, _)
probability_from(chmm, tokens, i, curr_hidden, product) ==
    IF i >= Len(tokens) THEN [kind |-> "value", value |-> product]
    ELSE IF ~split_token_ok(tokens[i + 1]) THEN [kind |-> "panic"]
    ELSE LET token_observed == split_token(tokens[i + 1])[1]
             token_hidden == split_token(tokens[i + 1])[2]
         IN IF /\ i < Len(chmm.hidden_probs)
               /\ curr_hidden \in DOMAIN chmm.hidden_probs[i + 1]
               /\ token_hidden \in DOMAIN chmm.hidden_probs[i + 1][curr_hidden]
               /\ i < Len(chmm.observed_probs)
               /\ token_hidden \in DOMAIN chmm.observed_probs[i + 1]
               /\ token_observed \in DOMAIN chmm.observed_probs[i + 1][token_hidden]
            THEN probability_from(chmm, tokens, i + 1, token_hidden,
                    f64_mul(f64_mul(product,
                                    chmm.hidden_probs[i + 1][curr_hidden][token_hidden]),
                            chmm.observed_probs[i + 1][token_hidden][token_observed]))
            ELSE [kind |-> "panic"]

get_sequence_probability(chmm, sequence) ==
    probability_from(chmm, split_whitespace(sequence), 0, START_TOKEN, One)

----------------------------------------------------------------------------
(* The vocabulary of the repository's tests.                               *)

NNP == <<"N", "N", "P">>
RB == <<"R", "B">>
VBZ == <<"V", "B", "Z">>
NN == <<"N", "N">>
Ted == <<"T", "e", "d">>
Mary == <<"M", "a", "r", "y">>
Fred == <<"F", "r", "e", "d">>
now == <<"n", "o", "w">>
sometimes == <<"s", "o", "m", "e", "t", "i", "m", "e", "s">>
likes == <<"l", "i", "k", "e", "s">>
loves == <<"l", "o", "v", "e", "s">>
sees == <<"s", "e", "e", "s">>
green == <<"g", "r", "e", "e", "n">>
red == <<"r", "e", "d">>

Tok(observed, hidden) == observed \o <<":">> \o hidden

Line1 == Join(<<Tok(Ted, NNP), Tok(now, RB), Tok(likes, VBZ), Tok(green, NN)>>, " ")
Line2 == Join(<<Tok(Mary, NNP), Tok(likes, VBZ), Tok(red, NN)>>, " ")
Line3 == Join(<<Tok(Mary, NNP), Tok(now, RB), Tok(loves, VBZ), Tok(red, NN)>>, " ")
Line4 == Join(<<Tok(Fred, NNP), Tok(sees, VBZ), Tok(Mary, NNP), Tok(sometimes, RB)>>, " ")
\* a line after which every hidden label has a successor
Line5 == Join(<<Tok(Mary, NNP), Tok(sees, VBZ), Tok(Fred, NNP)>>, " ")

\* the corpus of train_chmm and of most other tests
FourLines == Join(<<Line1, Line2, Line3, Line4>>, "\n")
\* the corpus of generate_sequence_chmm
TwoLines == Join(<<Line1, Line1>>, "\n")

TF == MultiConstraint_new(<<StartsWithLetterConstraint_new("t"),
                            StartsWithLetterConstraint_new("f")>>, FALSE)

\* the observed constraints of train_chmm (utils::get_test_constraints)
TestConstraints == <<TF, EmptyConstraint_new, EmptyConstraint_new, MatchesConstraint_new(red)>>
\* the observed constraints of generate_sequence_chmm
GreenConstraints == <<TF, EmptyConstraint_new, EmptyConstraint_new, MatchesConstraint_new(green)>>

----------------------------------------------------------------------------
(* The inputs of the calls.                                                *)

\* Option<Vec<Box<dyn Constraint>>>
None == [some |-> FALSE, list |-> <<>>]
Some(list) == [some |-> TRUE, list |-> list]

\* every sequence over pool of a length in lo..hi
SeqsOver(pool, lo, hi) == UNION {[1..n -> pool] : n \in lo..hi}

\* corpora of the positional model: up to MaxLines of the tests' lines
LinePool == {Line1, Line2, Line4, Line5}
Corpora ==
    {Join(lines, "\n") : lines \in SeqsOver(LinePool, 1, MaxLines)}
        \cup {FourLines, TwoLines}

\* corpora of the base model alone: the tests' lines and short generated lines
BaseTokenPool == {Tok(Mary, NNP), Tok(likes, VBZ)}
BaseLinePool ==
    {Join(tokens, " ") : tokens \in SeqsOver(BaseTokenPool, 0, MaxLineLen)}
        \cup {Line1, Line2, Line3, Line4}
BaseCorpora == {Join(lines, "\n") : lines \in SeqsOver(BaseLinePool, 1, MaxBaseLines)}

\* what one position of a generated constraint list asks: <<observed, hidden>>
PositionPool == {<<EmptyConstraint_new, EmptyConstraint_new>>,
                 <<TF, EmptyConstraint_new>>,
                 <<MatchesConstraint_new(red), EmptyConstraint_new>>,
                 <<EmptyConstraint_new, MatchesConstraint_new(NNP)>>,
                 <<TF, MatchesConstraint_new(NNP)>>}

NewArgs(sequence_length, hidden, observed) ==
    [sequence_length |-> sequence_length, hidden |-> hidden, observed |-> observed]

\* both lists given, of the length passed as sequence_length
GeneratedArgs ==
    {NewArgs(Len(pl), Some([i \in 1..Len(pl) |-> pl[i][2]]),
                      Some([i \in 1..Len(pl) |-> pl[i][1]])) :
        pl \in SeqsOver(PositionPool, 1, MaxSeqLen)}

\* both lists omitted
DefaultArgs == {NewArgs(n, None, None) : n \in 0..MaxSeqLen}

\* all-Empty lists whose lengths need not agree with sequence_length
LengthArgs ==
    {NewArgs(n, Some([i \in 1..h |-> EmptyConstraint_new]),
                Some([i \in 1..o |-> EmptyConstraint_new])) :
        n \in 1..MaxSeqLen, h \in 1..MaxSeqLen, o \in 1..MaxSeqLen}

\* the constructor calls of the tests
TestArgs ==
    {NewArgs(4, None, None),
     NewArgs(4, None, Some(TestConstraints)),
     NewArgs(4, None, Some(GreenConstraints)),
     NewArgs(4, Some(<<EmptyConstraint_new, EmptyConstraint_new, EmptyConstraint_new,
                       MatchesConstraint_new(NNP)>>), None)}

ConstructorArgs == GeneratedArgs \cup DefaultArgs \cup LengthArgs \cup TestArgs

\* the sequences probability queries are made with
QueryPool ==
    {Line1, Line2, Line4,
     Join(<<Tok(Ted, NNP), Tok(now, RB), Tok(likes, VBZ), Tok(red, NN)>>, " "),
     Join(<<Tok(Ted, NNP), Tok(now, RB)>>, " "),
     Join(<<Tok(Fred, NNP), Tok(likes, VBZ)>>, " "),
     Join(<<Tok(Ted, NNP), Tok(red, RB)>>, " "),
     Join(<<Tok(Ted, NNP), Tok(now, <<"X">>)>>, " "),
     <<>>}

----------------------------------------------------------------------------
(* The state.                                                              *)

VARIABLES
    pc,                     \* "start", "parsed", "base", "built", "trained", "aborted"
    model,                  \* the HiddenMarkov returned by HiddenMarkov::new
    hidden_markov_model,    \* ConstrainedHiddenMarkov.hidden_markov_model
    sequence_length,        \* ConstrainedHiddenMarkov.sequence_length
    hidden_probs,           \* ConstrainedHiddenMarkov.hidden_probs
    observed_probs,         \* ConstrainedHiddenMarkov.observed_probs
    hidden_constraints,     \* ConstrainedHiddenMarkov.hidden_constraints
    observed_constraints,   \* ConstrainedHiddenMarkov.observed_constraints
    call,                   \* the last call: its name, arguments and outcome
    threads                 \* the calls in progress on a shared &self, per worker

vars == <<pc, model, hidden_markov_model, sequence_length, hidden_probs,
          observed_probs, hidden_constraints, observed_constraints, call, threads>>

chmm_vars == <<hidden_markov_model, sequence_length, hidden_probs,
               observed_probs, hidden_constraints, observed_constraints>>

NoModel == [markov_order |-> 0, hidden_probs |-> <<>>, observed_probs |-> <<>>,
            panicked |-> FALSE]

NoCall == [op |-> "none", markov_order |-> 0, data |-> <<>>,
           args |-> NewArgs(0, None, None), sequence |-> <<>>,
           kind |-> "none", value |-> Zero, out |-> <<>>]

NumWorkers == 2     \* number of threads that share a trained model

Workers == 1..NumWorkers

\* a worker outside sample_sequence and get_sequence_probability
NoThread == [op |-> "idle", kind |-> "none", i |-> 0, curr_hidden |-> START_TOKEN,
             sequence |-> <<>>, arg |-> <<>>, tokens |-> <<>>, product |-> One,
             draws |-> <<>>]

\* the ConstrainedHiddenMarkov value made of the state's fields
Self ==
    [hidden_markov_model |-> hidden_markov_model, sequence_length |-> sequence_length,
     hidden_probs |-> hidden_probs, observed_probs |-> observed_probs,
     hidden_constraints |-> hidden_constraints,
     observed_constraints |-> observed_constraints, panicked |-> FALSE]

Init ==
    /\ pc = "start"
    /\ model = NoModel
    /\ hidden_markov_model = NoModel
    /\ sequence_length = 0
    /\ hidden_probs = <<>>
    /\ observed_probs = <<>>
    /\ hidden_constraints = <<>>
    /\ observed_constraints = <<>>
    /\ call = NoCall
    /\ threads = [w \in Workers |-> NoThread]

----------------------------------------------------------------------------
(* The operations.                                                         *)

\* HiddenMarkov::new(markov_order, data)
NewHiddenMarkov(markov_order, data) ==
    /\ pc = "start"
    /\ LET hmm == HiddenMarkov_new(markov_order, data)
       IN /\ pc' = IF hmm.panicked THEN "aborted" ELSE "base"
          /\ model' = IF hmm.panicked THEN model ELSE hmm
          /\ call' = [NoCall EXCEPT !.op = "HiddenMarkov::new",
                                    !.markov_order = markov_order, !.data = data,
                                    !.kind = IF hmm.panicked THEN "panic" ELSE "ok"]
    /\ UNCHANGED <<chmm_vars, threads>>

\* the length of the observed constraint list is never compared
new_asserts_hold_hidden_only(n, hidden, observed) ==
    /\ n > 1
    /\ n = Len(hidden)

\* check_sequence_and_constraint_length and the assert! of new
new_asserts_hold(n, hidden, observed) ==
    /\ n > 1
    /\ n = Len(hidden)
    /\ n = Len(observed)

\* ConstrainedHiddenMarkov::new(model.clone(), sequence_length, hidden, observed)
ConstrainedHiddenMarkov_new(args) ==
    /\ pc = "base"
    /\ LET hidden == IF args.hidden.some THEN args.hidden.list
                     ELSE [i \in 1..args.sequence_length |-> EmptyConstraint_new]
           observed == IF args.observed.some THEN args.observed.list
                       ELSE [i \in 1..args.sequence_length |-> EmptyConstraint_new]
           ok == new_asserts_hold(args.sequence_length, hidden, observed)
       IN /\ pc' = IF ok THEN "built" ELSE "aborted"
          /\ call' = [NoCall EXCEPT !.op = "ConstrainedHiddenMarkov::new", !.args = args,
                                    !.kind = IF ok THEN "ok" ELSE "panic"]
          /\ IF ok
             THEN /\ hidden_markov_model' = model
                  /\ sequence_length' = args.sequence_length
                  /\ hidden_probs' = <<>>
                  /\ observed_probs' = <<>>
                  /\ hidden_constraints' = hidden
                  /\ observed_constraints' = observed
             ELSE UNCHANGED chmm_vars
    /\ UNCHANGED <<model, threads>>

\* ConstrainedHiddenMarkov::train(&mut self)
Train ==
    /\ pc \in {"built", "trained"}
    /\ LET trained == ConstrainedHiddenMarkov_train(Self)
       IN /\ pc' = IF trained.panicked THEN "aborted" ELSE "trained"
          /\ hidden_probs' = trained.hidden_probs
          /\ observed_probs' = trained.observed_probs
          /\ call' = [NoCall EXCEPT !.op = "train",
                                    !.kind = IF trained.panicked THEN "panic" ELSE "ok"]
    /\ UNCHANGED <<model, hidden_markov_model, sequence_length,
                   hidden_constraints, observed_constraints, threads>>

\* sampling that resets the first transition table to the base model's
SampleSequenceResetting ==
    /\ pc = "trained"
    /\ \E sequence \in sample_sequence(Self) :
          call' = [NoCall EXCEPT !.op = "sample_sequence", !.kind = "ok", !.out = sequence]
    /\ hidden_probs' = [hidden_probs EXCEPT ![1] = hidden_markov_model.hidden_probs]
    /\ UNCHANGED <<pc, model, hidden_markov_model, sequence_length, observed_probs,
                   hidden_constraints, observed_constraints, threads>>

\* ConstrainedHiddenMarkov::sample_sequence(&self)
SampleSequence ==
    /\ pc = "trained"
    /\ \E sequence \in sample_sequence(Self) :
          call' = [NoCall EXCEPT !.op = "sample_sequence", !.kind = "ok", !.out = sequence]
    /\ UNCHANGED <<pc, model, chmm_vars, threads>>

\* ConstrainedHiddenMarkov::get_sequence_probability(&self, sequence)
GetSequenceProbability(sequence) ==
    /\ pc = "trained"
    /\ LET r == get_sequence_probability(Self, sequence)
       IN /\ pc' = IF r.kind = "panic" THEN "aborted" ELSE pc
          /\ call' = [NoCall EXCEPT !.op = "get_sequence_probability",
                                    !.sequence = sequence, !.kind = r.kind,
                                    !.value = IF r.kind = "value" THEN r.value ELSE Zero]
    /\ UNCHANGED <<model, chmm_vars, threads>>

Next ==
    \/ \E data \in Corpora : NewHiddenMarkov(1, data)
    \/ \E args \in ConstructorArgs : ConstrainedHiddenMarkov_new(args)
    \/ Train
    \/ SampleSequence
    \/ \E sequence \in QueryPool : GetSequenceProbability(sequence)

Spec == Init /\ [][Next]_vars

\* the base model alone, over more corpora and orders
NextBase ==
    \E markov_order \in 1..MaxOrder : \E data \in BaseCorpora :
        NewHiddenMarkov(markov_order, data)

SpecBase == Init /\ [][NextBase]_vars

----------------------------------------------------------------------------
(* Vocabulary of the properties.                                           *)

Trained == pc = "trained"

AllZero(row) == \A k \in DOMAIN row : row[k] = Zero

AllEmpty(constraints) == \A i \in 1..Len(constraints) : constraints[i].type = "Empty"

\* every row of the matrix sums to 1 or is all zero
RowsNormalized(matrix) ==
    \A outer \in DOMAIN matrix : values_sum(matrix[outer]) = One \/ AllZero(matrix[outer])

WeightOf(matrix, outer, inner) ==
    IF outer \in DOMAIN matrix /\ inner \in DOMAIN matrix[outer]
    THEN matrix[outer][inner] ELSE Zero

\* the token lists for the positions i .. sequence_length - 1 that start from
\* hidden label curr, have a non-zero probability in the base model and
\* satisfy the positional constraints
RECURSIVE Completions(_, _)
Completions(i, curr) ==
    IF i >= sequence_length THEN {<<>>}
    ELSE IF curr \notin DOMAIN hidden_markov_model.hidden_probs THEN {}
    ELSE UNION {UNION {{<<Tok(o, h)>> \o rest : rest \in Completions(i + 1, h)} :
                    o \in {x \in DOMAIN hidden_markov_model.observed_probs[h] :
                              is_satisfied_by_state(observed_constraints[i + 1], x)}} :
                h \in {x \in DOMAIN hidden_markov_model.hidden_probs[curr] :
                          /\ x \in DOMAIN hidden_markov_model.observed_probs
                          /\ is_satisfied_by_state(hidden_constraints[i + 1], x)}}

\* the sequence_length-token sequences that satisfy every constraint
SatisfyingSequences == {Join(tokens, " ") : tokens \in Completions(0, START_TOKEN)}

BaseProbability(sequence) ==
    HiddenMarkov_get_sequence_probability(hidden_markov_model, sequence).value

\* the total base-model probability of a set of sequences of non-zero
\* probability: the weights are brought to a common denominator, and the sum
\* of the numerators is the size of the bag holding each sequence as many
\* times as its numerator says
TotalBaseProbability(sequences) ==
    IF sequences = {} THEN Zero
    ELSE LET dens == {BaseProbability(s)[2] : s \in sequences}
             largest == CHOOSE d \in dens : \A e \in dens : e <= d
             common == CHOOSE m \in {k * largest : k \in 1..largest} :
                           \A d \in dens : m % d = 0
             copies == [s \in sequences |->
                           BaseProbability(s)[1] * (common \div BaseProbability(s)[2])]
         IN Rat(BagCardinality(copies), common)

\* the tokens of the last sampled sequence, split into <<observed, hidden>>
SampledTokens ==
    [i \in 1..Len(split_whitespace(call.out)) |-> split_token(split_whitespace(call.out)[i])]

----------------------------------------------------------------------------
(* C1.  After train(), at every position every row of hidden_probs and of  *)
(* observed_probs sums to 1 or is all zero.                                *)

NormalizationInvariant ==
    Trained =>
        /\ Len(hidden_probs) = sequence_length
        /\ Len(observed_probs) = sequence_length
        /\ \A p \in 1..sequence_length :
              RowsNormalized(hidden_probs[p]) /\ RowsNormalized(observed_probs[p])

\* a trained model with an eliminated row, and a live row that lost a target
NormalizationWitness ==
    /\ Trained
    /\ \E p \in 1..sequence_length : \E outer \in DOMAIN hidden_probs[p] :
          AllZero(hidden_probs[p][outer])
    /\ \E p \in 1..sequence_length : \E outer \in DOMAIN hidden_probs[p] :
          /\ values_sum(hidden_probs[p][outer]) = One
          /\ \E inner \in DOMAIN hidden_probs[p][outer] : hidden_probs[p][outer][inner] = Zero
          /\ hidden_probs[p][outer] # hidden_markov_model.hidden_probs[outer]

----------------------------------------------------------------------------
(* C2.  As claimed: with all-Empty constraints the trained model has, at   *)
(* every position, the base model's transition and emission tables.        *)

NoOpRoundTrip ==
    (Trained /\ AllEmpty(hidden_constraints) /\ AllEmpty(observed_constraints)) =>
        \A p \in 1..sequence_length :
            /\ hidden_probs[p] = hidden_markov_model.hidden_probs
            /\ observed_probs[p] = hidden_markov_model.observed_probs

\* every hidden label that is a transition target also has outgoing transitions
NoDeadEnd(hmm) ==
    \A outer \in DOMAIN hmm.hidden_probs :
        \A inner \in DOMAIN hmm.hidden_probs[outer] : inner \in DOMAIN hmm.hidden_probs

(* C2, amended.  With all-Empty constraints the emission tables of every   *)
(* position and the transition table of the last position equal the base   *)
(* model's; the earlier transition tables equal it when no hidden label of  *)
(* the base model is a dead end.                                           *)
NoOpRoundTripAmended ==
    (Trained /\ AllEmpty(hidden_constraints) /\ AllEmpty(observed_constraints)) =>
        /\ \A p \in 1..sequence_length :
              observed_probs[p] = hidden_markov_model.observed_probs
        /\ hidden_probs[sequence_length] = hidden_markov_model.hidden_probs
        /\ NoDeadEnd(hidden_markov_model) =>
              \A p \in 1..sequence_length :
                  hidden_probs[p] = hidden_markov_model.hidden_probs

NoOpRoundTripWitness ==
    /\ Trained /\ AllEmpty(hidden_constraints) /\ AllEmpty(observed_constraints)
    /\ NoDeadEnd(hidden_markov_model)
    /\ sequence_length >= 3
    /\ Cardinality(DOMAIN hidden_markov_model.hidden_probs) >= 3

----------------------------------------------------------------------------
(* C3.  Every token of a sampled sequence was drawn with a non-zero        *)
(* weight, and a sampled sequence of sequence_length tokens satisfies the  *)
(* observed and the hidden constraint of each position.                    *)

----------------------------------------------------------------------------
(* C4.  After train(), the probability of every constraint-satisfying      *)
(* sequence is its base-model probability divided by the total base-model  *)
(* probability of the constraint-satisfying sequences.                     *)

ConditionalDistribution ==
    (Trained /\ call.op = "train") =>
        LET sat == SatisfyingSequences
            total == TotalBaseProbability(sat)
        IN \A s \in sat :
              /\ get_sequence_probability(Self, s).kind = "value"
              /\ get_sequence_probability(Self, s).value =
                    f64_div(BaseProbability(s), total)

\* constraints that leave several sequences of unequal probability and
\* remove some of the base model's mass
ConditionalDistributionWitness ==
    /\ Trained /\ call.op = "train"
    /\ ~AllEmpty(observed_constraints)
    /\ \E s, t \in SatisfyingSequences :
          /\ BaseProbability(s) # BaseProbability(t)
          /\ get_sequence_probability(Self, s).value # BaseProbability(s)

----------------------------------------------------------------------------
(* C5.  The four-line corpus at order 1, length 4, with the observed       *)
(* constraints [AnyOf(SW t, SW f), Empty, Empty, Matches red].             *)

IsTrainChmmScenario ==
    /\ Trained
    /\ hidden_markov_model = HiddenMarkov_new(1, FourLines)
    /\ sequence_length = 4
    /\ observed_constraints = TestConstraints
    /\ AllEmpty(hidden_constraints)

TrainChmmScenario ==
    IsTrainChmmScenario =>
        /\ hidden_probs[1][VBZ][NNP] = One
        /\ observed_probs[2][NNP][Mary] = Rat(3, 5)
        /\ observed_probs[4][NN][red] = One
        /\ get_sequence_probability(Self,
              Join(<<Tok(Ted, NNP), Tok(now, RB), Tok(likes, VBZ), Tok(red, NN)>>, " "))
             = [kind |-> "value", value |-> Rat(1, 6)]

TrainChmmScenarioWitness == IsTrainChmmScenario /\ call.op = "train"

----------------------------------------------------------------------------
(* C6.  When exactly one sequence satisfies the constraints, every sample  *)
(* is that sequence.                                                       *)

UniqueSurvivorSampled ==
    (Trained /\ call.op = "sample_sequence" /\ Cardinality(SatisfyingSequences) = 1) =>
        call.out \in SatisfyingSequences

\* generate_sequence_chmm: two identical lines, last word must match "green"
UniqueSurvivorWitness ==
    /\ Trained /\ call.op = "sample_sequence"
    /\ hidden_markov_model = HiddenMarkov_new(1, TwoLines)
    /\ observed_constraints = GreenConstraints
    /\ SatisfyingSequences = {Line1}
    /\ call.out = Line1

----------------------------------------------------------------------------
(* C7.  sample_sequence and get_sequence_probability change neither the    *)
(* tables nor the constraints, and the value a query returns is the one    *)
(* the tables held before the call determine.  Every call therefore        *)
(* returns the same value for the same sequence.                           *)

QueriesAreReadOnly ==
    [][call'.op \in {"sample_sequence", "get_sequence_probability"} =>
          /\ hidden_probs' = hidden_probs
          /\ observed_probs' = observed_probs
          /\ hidden_constraints' = hidden_constraints
          /\ observed_constraints' = observed_constraints
          /\ hidden_markov_model' = hidden_markov_model
          /\ call'.op = "get_sequence_probability" =>
                /\ call'.kind = get_sequence_probability(Self, call'.sequence).kind
                /\ call'.kind = "value" =>
                      call'.value = get_sequence_probability(Self, call'.sequence).value
                /\ (call.op = "get_sequence_probability" /\ call.sequence = call'.sequence) =>
                      call'.value = call.value]_vars

\* a query that returned a probability strictly between 0 and 1
QueriesAreReadOnlyWitness ==
    /\ Trained /\ call.op = "get_sequence_probability"
    /\ call.kind = "value"
    /\ call.value # Zero /\ call.value # One

----------------------------------------------------------------------------
(* C8.  A query that needs a (position, context, target) triple the tables *)
(* do not hold ends in a LookupError returned to the caller: no number, no *)
(* abort.                                                                  *)

\* the hidden label the query holds when it reaches token i
QueryContext(tokens, i) == IF i = 1 THEN START_TOKEN ELSE split_token(tokens[i - 1])[2]

\* some token of the sequence needs an absent triple
NeedsAbsentTriple(sequence) ==
    LET tokens == split_whitespace(sequence)
    IN \E i \in 1..Len(tokens) :
          /\ \A j \in 1..i : split_token_ok(tokens[j])
          /\ \/ i > sequence_length
             \/ QueryContext(tokens, i) \notin DOMAIN hidden_probs[i]
             \/ split_token(tokens[i])[2] \notin DOMAIN hidden_probs[i][QueryContext(tokens, i)]
             \/ split_token(tokens[i])[2] \notin DOMAIN observed_probs[i]
             \/ split_token(tokens[i])[1] \notin
                    DOMAIN observed_probs[i][split_token(tokens[i])[2]]

LookupErrorIsRecoverable ==
    (call.op = "get_sequence_probability" /\ NeedsAbsentTriple(call.sequence)) =>
        /\ call.kind = "LookupError"
        /\ pc # "aborted"

----------------------------------------------------------------------------
(* C9.  The constructor fails, and leaves no model, exactly when           *)
(* sequence_length <= 1 or a supplied list has another length; a model it  *)
(* returns has both lists of length sequence_length > 1, an omitted list   *)
(* being sequence_length Empty constraints.                                *)

BadConstructorArgs(args) ==
    \/ args.sequence_length <= 1
    \/ args.hidden.some /\ Len(args.hidden.list) # args.sequence_length
    \/ args.observed.some /\ Len(args.observed.list) # args.sequence_length

ConstructionChecked ==
    /\ call.op = "ConstrainedHiddenMarkov::new" =>
          /\ BadConstructorArgs(call.args) <=> call.kind = "panic"
          /\ call.kind = "panic" =>
                /\ pc = "aborted"
                /\ sequence_length = 0
                /\ hidden_constraints = <<>> /\ observed_constraints = <<>>
          /\ call.kind = "ok" =>
                /\ pc = "built"
                /\ sequence_length = call.args.sequence_length
                /\ ~call.args.hidden.some =>
                      hidden_constraints = [i \in 1..sequence_length |-> EmptyConstraint_new]
                /\ ~call.args.observed.some =>
                      observed_constraints = [i \in 1..sequence_length |-> EmptyConstraint_new]
                /\ call.args.hidden.some => hidden_constraints = call.args.hidden.list
                /\ call.args.observed.some => observed_constraints = call.args.observed.list
    /\ pc \in {"built", "trained"} =>
          /\ sequence_length > 1
          /\ Len(hidden_constraints) = sequence_length
          /\ Len(observed_constraints) = sequence_length

\* a constructor call refused only for the length of its observed list
ConstructionCheckedWitness ==
    /\ call.op = "ConstrainedHiddenMarkov::new" /\ call.kind = "panic"
    /\ call.args.sequence_length > 1
    /\ Len(call.args.hidden.list) = call.args.sequence_length
    /\ Len(call.args.observed.list) # call.args.sequence_length

----------------------------------------------------------------------------
(* C10.  After HiddenMarkov::train each table holds exactly the contexts   *)
(* that were counted; each weight is count / total of its context and the  *)
(* weights of a context sum to 1.                                          *)

\* the windows of markov_order tokens of a line, a shorter rest left out
Windows(line, k) ==
    LET tokens == split_whitespace(line)
    IN [j \in 1..(Len(tokens) \div k) |-> SubSeq(tokens, (j - 1) * k + 1, j * k)]

HiddenOf(window) == Join([i \in 1..Len(window) |-> split_token(window[i])[2]], " ")
ObservedOf(window) == Join([i \in 1..Len(window) |-> split_token(window[i])[1]], " ")

\* one <<context, hidden, observed>> per window of the corpus, with its place
CountedWindows(data, k) ==
    LET lines == split(data, "\n")
        OfLine(l) ==
            LET windows == Windows(lines[l], k)
            IN {[line |-> l, window |-> j,
                 context |-> IF j = 1 THEN Join([i \in 1..k |-> START_TOKEN], " ")
                             ELSE HiddenOf(windows[j - 1]),
                 hidden |-> HiddenOf(windows[j]),
                 observed |-> ObservedOf(windows[j])] : j \in 1..Len(windows)}
    IN UNION {OfLine(l) : l \in 1..Len(lines)}

BaseTablesAreRelativeCounts ==
    (pc = "base" /\ call.op = "HiddenMarkov::new") =>
        LET w == CountedWindows(call.data, call.markov_order)
            transitions(c) == {x \in w : x.context = c}
            emissions(h) == {x \in w : x.hidden = h}
        IN /\ DOMAIN model.hidden_probs = {x.context : x \in w}
           /\ DOMAIN model.observed_probs = {x.hidden : x \in w}
           /\ \A c \in DOMAIN model.hidden_probs :
                 /\ DOMAIN model.hidden_probs[c] = {x.hidden : x \in transitions(c)}
                 /\ \A t \in DOMAIN model.hidden_probs[c] :
                       model.hidden_probs[c][t] =
                           Rat(Cardinality({x \in transitions(c) : x.hidden = t}),
                               Cardinality(transitions(c)))
                 /\ values_sum(model.hidden_probs[c]) = One
           /\ \A h \in DOMAIN model.observed_probs :
                 /\ DOMAIN model.observed_probs[h] = {x.observed : x \in emissions(h)}
                 /\ \A o \in DOMAIN model.observed_probs[h] :
                       model.observed_probs[h][o] =
                           Rat(Cardinality({x \in emissions(h) : x.observed = o}),
                               Cardinality(emissions(h)))
                 /\ values_sum(model.observed_probs[h]) = One

\* a context counted several times, its targets with unequal counts
BaseTablesWitness ==
    /\ pc = "base" /\ call.op = "HiddenMarkov::new"
    /\ Cardinality(DOMAIN model.hidden_probs) >= 3
    /\ \E c \in DOMAIN model.hidden_probs :
          \E t, u \in DOMAIN model.hidden_probs[c] :
              model.hidden_probs[c][t] # model.hidden_probs[c][u]
    /\ \E h \in DOMAIN model.observed_probs :
          \E o, q \in DOMAIN model.observed_probs[h] :
              model.observed_probs[h][o] # model.observed_probs[h][q]

----------------------------------------------------------------------------
(* The constraint parser as an operation: parse_constraint applied to the  *)
(* constraint strings of up to MaxSpecLines lines of SpecLinePool.         *)

MaxSpecLines == 3   \* largest number of lines of a generated constraint string

SpecLinePool ==
    {<<>>,                                                  \* an empty line
     <<" ">>,                                               \* a line of one space
     <<"N", "C", ":", "N", "C">>,
     Tok(Ted, NNP),
     <<"S", "W", "(", "t", ")", ":", "N", "C">>,
     <<"R", "W", "(", "r", "e", "d", ")", ":", "N", "N">>,
     <<"S", "W", "(", ")", ":", "N", "C">>,
     <<"N", "C", "*", "2">>,
     <<"r", "e", "d", "*", "0">>,
     <<"N", "C", "*", "-", "1">>,
     <<"N", "C", "*", "x">>,
     Tok(Ted, NNP) \o <<"*", "2">>}

ConstraintStrings ==
    {Join(lines, "\n") : lines \in SeqsOver(SpecLinePool, 1, MaxSpecLines)}

\* parse_constraint(constraint_string), as main calls it
ParseConstraint(constraint_string) ==
    /\ pc = "start"
    /\ LET lists == parse_constraint(constraint_string)
       IN /\ pc' = IF lists.panicked THEN "aborted" ELSE "parsed"
          /\ call' = [op |-> "parse_constraint",
                      constraint_string |-> constraint_string,
                      kind |-> IF lists.panicked THEN "panic" ELSE "ok",
                      hidden |-> IF lists.panicked THEN <<>> ELSE lists.hidden,
                      observed |-> IF lists.panicked THEN <<>> ELSE lists.observed]
    /\ UNCHANGED <<model, chmm_vars, threads>>

NextParser == \E constraint_string \in ConstraintStrings : ParseConstraint(constraint_string)

SpecParser == Init /\ [][NextParser]_vars

----------------------------------------------------------------------------
(* C11: the lists of the parser.                                           *)

Parsed == call.op = "parse_constraint" /\ call.kind = "ok"

ParsedLines == split(call.constraint_string, "\n")

IsBlank(line) == \A i \in 1..Len(line) : IsWhitespace(line[i])
IsRepeat(line) == contains(line, "*")

\* SPEC and N of a line SPEC*N
RepeatSpec(line) == split(line, "*")[1]
RepeatCount(line) == parse_i32(split(line, "*")[2]).value

RECURSIVE SumOfCounts(_, _)
SumOfCounts(lines, i) ==
    IF i > Len(lines) THEN 0
    ELSE (IF IsRepeat(lines[i]) THEN RepeatCount(lines[i]) ELSE 0) + SumOfCounts(lines, i + 1)

RECURSIVE SumOfNaturalCounts(_, _)
SumOfNaturalCounts(lines, i) ==
    IF i > Len(lines) THEN 0
    ELSE (IF IsRepeat(lines[i]) /\ RepeatCount(lines[i]) > 0
          THEN RepeatCount(lines[i]) ELSE 0) + SumOfNaturalCounts(lines, i + 1)

PlainLines(lines) == {i \in 1..Len(lines) : ~IsBlank(lines[i]) /\ ~IsRepeat(lines[i])}

\* what the lines before line i and line i itself have appended to a list
AppendedBefore(lines, i) ==
    Cardinality({j \in PlainLines(lines) : j < i}) + SumOfNaturalCounts(SubSeq(lines, 1, i - 1), 1)

NaturalCount(line) == IF RepeatCount(line) > 0 THEN RepeatCount(line) ELSE 0

\* line by line: SPEC*N appends N copies of one constraint to both lists,
\* (no copy when N is negative), OBS:HID appends OBS to the observed list and
\* HID to the hidden list, a blank line appends nothing
LinesAppend ==
    \A i \in 1..Len(ParsedLines) :
        LET line == ParsedLines[i]
            at == AppendedBefore(ParsedLines, i)
        IN IF IsBlank(line) THEN AppendedBefore(ParsedLines, i + 1) = at
           ELSE IF IsRepeat(line)
           THEN /\ Len(call.hidden) >= at + NaturalCount(line)
                /\ Len(call.observed) >= at + NaturalCount(line)
                /\ \A k \in 1..NaturalCount(line) :
                      /\ call.hidden[at + k] = str_to_constraint(RepeatSpec(line)).constraint
                      /\ call.observed[at + k] = call.hidden[at + k]
           ELSE /\ Len(call.hidden) >= at + 1
                /\ Len(call.observed) >= at + 1
                /\ call.observed[at + 1] = str_to_constraint(split(line, ":")[1]).constraint
                /\ call.hidden[at + 1] = str_to_constraint(split(line, ":")[2]).constraint

\* C11 as stated: after a parse without error both lists have the length
\* L = (number of non-blank lines without '*') + (sum of N over the lines
\* SPEC*N), a line SPEC*N has appended N copies of the same constraint to
\* both lists, a line OBS:HID one constraint to each, a blank line nothing.
ParserLists ==
    Parsed =>
        /\ Len(call.hidden) = Len(call.observed)
        /\ Len(call.hidden) =
              Cardinality(PlainLines(ParsedLines)) + SumOfCounts(ParsedLines, 1)
        /\ LinesAppend

\* C11 amended: the same, where a line SPEC*N with a negative N appends
\* nothing and counts for 0 in L.
ParserListsAmended ==
    Parsed =>
        /\ Len(call.hidden) = Len(call.observed)
        /\ Len(call.hidden) =
              Cardinality(PlainLines(ParsedLines)) + SumOfNaturalCounts(ParsedLines, 1)
        /\ LinesAppend

\* a blank line, a line OBS:HID and a line SPEC*2 parsed together
ParserListsWitness ==
    /\ Parsed
    /\ \E i \in 1..Len(ParsedLines) : IsBlank(ParsedLines[i])
    /\ \E i \in 1..Len(ParsedLines) :
          ~IsBlank(ParsedLines[i]) /\ ~IsRepeat(ParsedLines[i])
    /\ \E i \in 1..Len(ParsedLines) :
          IsRepeat(ParsedLines[i]) /\ RepeatCount(ParsedLines[i]) = 2
    /\ Len(call.hidden) = 3

----------------------------------------------------------------------------
(* Constraint evaluation as an operation: is_satisfied_by_state applied to *)
(* the constraints of ConstraintPool and the strings of CandidatePool.     *)

MaxChildren == 2    \* largest number of children of a generated MultiConstraint

Ecole == <<"É", "c", "o", "l", "e">>

CandidatePool ==
    {<<>>, red, <<"R", "e", "d">>, <<"R", "E", "D">>, Ted, <<"t", "e", "d">>, Fred,
     Ecole, to_lowercase(Ecole), <<"1", "s", "t">>}

MatchTargets == {<<>>, red, <<"R", "e", "d">>, <<"R", "E", "D">>, Ecole, Ted}

LetterPool == {"t", "T", "f", "é", "É", "1"}

\* MultiConstraint::new over every list of up to MaxChildren children of pool
MultiOver(pool) ==
    {MultiConstraint_new(constraints, require_all) :
        constraints \in SeqsOver(pool, 0, MaxChildren), require_all \in BOOLEAN}

ConstraintPool ==
    {EmptyConstraint_new}
    \cup {MatchesConstraint_new(target) : target \in MatchTargets}
    \cup {StartsWithLetterConstraint_new(letter) : letter \in LetterPool}
    \cup MultiOver({EmptyConstraint_new, MatchesConstraint_new(red),
                    StartsWithLetterConstraint_new("t"),
                    StartsWithLetterConstraint_new("f")})
    \cup MultiOver({StartsWithLetterConstraint_new("t")}
                   \cup MultiOver({MatchesConstraint_new(red)}))

\* constraint.is_satisfied_by_state(state)
IsSatisfiedByState(constraint, state) ==
    /\ pc = "start"
    /\ pc' = "evaluated"
    /\ call' = [op |-> "is_satisfied_by_state", constraint |-> constraint,
                state |-> state, kind |-> "ok",
                satisfied |-> is_satisfied_by_state(constraint, state)]
    /\ UNCHANGED <<model, chmm_vars, threads>>

NextConstraints ==
    \E constraint \in ConstraintPool : \E state \in CandidatePool :
        IsSatisfiedByState(constraint, state)

SpecConstraints == Init /\ [][NextConstraints]_vars

Evaluated == call.op = "is_satisfied_by_state"

----------------------------------------------------------------------------
(* C12: MultiConstraint.                                                   *)

\* a constraint and the constraints nested in it, at any depth
RECURSIVE SubConstraints(_)
SubConstraints(c) ==
    IF c.type = "Multi"
    THEN {c} \cup UNION {SubConstraints(c.constraints[i]) : i \in 1..Len(c.constraints)}
    ELSE {c}

SatisfiedChildren(c, state) ==
    {i \in 1..Len(c.constraints) : is_satisfied_by_state(c.constraints[i], state)}

\* C12: a Multi in mode AnyOf is satisfied iff at least one child is (so it is
\* not when it has no child), a Multi in mode AllOf iff every child is (so it
\* is when it has no child); the same holds of every Multi nested in it.
MultiSemantics ==
    Evaluated =>
        \A c \in SubConstraints(call.constraint) :
            c.type = "Multi" =>
                LET satisfied == IF c = call.constraint THEN call.satisfied
                                 ELSE is_satisfied_by_state(c, call.state)
                    count == Cardinality(SatisfiedChildren(c, call.state))
                IN /\ ~c.require_all => (satisfied <=> count >= 1)
                   /\ c.require_all => (satisfied <=> count = Len(c.constraints))
                   /\ Len(c.constraints) = 0 => (satisfied <=> c.require_all)

\* an AnyOf of two children is satisfied through a nested AllOf without children
\* alone
MultiSemanticsWitness ==
    /\ Evaluated
    /\ call.constraint.type = "Multi"
    /\ ~call.constraint.require_all
    /\ call.satisfied
    /\ Len(call.constraint.constraints) = 2
    /\ \E i \in 1..2 :
          /\ call.constraint.constraints[i] = MultiConstraint_new(<<>>, TRUE)
          /\ SatisfiedChildren(call.constraint, call.state) = {i}

----------------------------------------------------------------------------
(* C13: MatchesConstraint.                                                 *)

\* C13: Matches(target) is satisfied by a candidate iff the lowercase forms of
\* the candidate and of the target are equal; the empty candidate satisfies it
\* only when the target is empty.
MatchesSemantics ==
    Evaluated =>
        \A target \in MatchTargets :
            call.constraint = MatchesConstraint_new(target) =>
                /\ call.kind = "ok"
                /\ call.satisfied <=> to_lowercase(call.state) = to_lowercase(target)
                /\ call.state = <<>> => (call.satisfied <=> target = <<>>)

\* a target and a candidate that differ by case only, one of them outside ASCII
MatchesSemanticsWitness ==
    /\ Evaluated
    /\ call.constraint = MatchesConstraint_new(Ecole)
    /\ call.state = to_lowercase(Ecole)
    /\ call.state # Ecole
    /\ call.satisfied

----------------------------------------------------------------------------
(* C14: StartsWithLetterConstraint.                                        *)

\* C14: StartsWithLetter(letter) is satisfied by a candidate iff the candidate
\* is not empty and its first character equals the letter when case is
\* ignored; the evaluation never fails.
StartsWithLetterSemantics ==
    (Evaluated /\ call.constraint.type = "StartsWithLetter") =>
        /\ call.kind = "ok"
        /\ call.satisfied <=>
              /\ Len(call.state) > 0
              /\ char_to_lowercase(call.state[1]) = char_to_lowercase(call.constraint.letter)

----------------------------------------------------------------------------
(* Calls of sample_sequence(&self) and get_sequence_probability(&self) on  *)
(* one trained model from several threads.  A step of a thread is one      *)
(* iteration of the loop of its call; train(&mut self) excludes every      *)
(* other borrow, so it runs only while no call is in progress.             *)

Running(w) == threads[w].kind = "running"

\* the for loop of sample_sequence ends: i reached sequence_length, or
\* return sequence
sample_returns(chmm, t) ==
    \/ t.i >= chmm.sequence_length
    \/ t.curr_hidden \notin DOMAIN chmm.hidden_probs[t.i + 1]

\* one iteration of the for loop of sample_sequence; hd and od are the draw
\* (iteration order of the row, rand_value) of each call of next_token
sample_iteration(chmm, t, hd, od) ==
    LET hidden == next_token(chmm.hidden_probs[t.i + 1][t.curr_hidden], hd.order, hd.rand)
    IN IF hidden \in DOMAIN chmm.observed_probs[t.i + 1]
       THEN [t EXCEPT
                !.curr_hidden = hidden,
                !.sequence = @ \o next_token(chmm.observed_probs[t.i + 1][hidden],
                                             od.order, od.rand)
                               \o <<":">> \o hidden
                               \o (IF t.i # chmm.sequence_length - 1 THEN <<" ">> ELSE <<>>),
                !.i = @ + 1,
                !.draws = @ \o <<hd, od>>]
       ELSE [t EXCEPT !.curr_hidden = hidden, !.i = @ + 1, !.draws = Append(@, hd)]

Draws(row) == {[order |-> order, rand |-> rand] :
                  order \in Orders(DOMAIN row), rand \in RandValues}

\* sample_sequence run by one thread alone, its next_token calls making the
\* given draws one after the other
RECURSIVE sample_sequence_with(_, _, _)
sample_sequence_with(chmm, draws, t) ==
    IF sample_returns(chmm, t) \/ draws = <<>> THEN t.sequence
    ELSE LET next == sample_iteration(chmm, t, draws[1],
                                      IF Len(draws) > 1 THEN draws[2] ELSE draws[1])
         IN sample_sequence_with(chmm,
                SubSeq(draws, 1 + Len(next.draws) - Len(t.draws), Len(draws)), next)

\* one iteration of the for loop of get_sequence_probability, or its return;
\* Panic on a Vec index out of range or a missing HashMap key
probability_iteration(chmm, t) ==
    IF t.i >= Len(t.tokens) THEN [t EXCEPT !.kind = "returned"]
    ELSE IF ~split_token_ok(t.tokens[t.i + 1]) THEN [t EXCEPT !.kind = "panicked"]
    ELSE LET token_observed == split_token(t.tokens[t.i + 1])[1]
             token_hidden == split_token(t.tokens[t.i + 1])[2]
         IN IF /\ t.i < Len(chmm.hidden_probs)
               /\ t.curr_hidden \in DOMAIN chmm.hidden_probs[t.i + 1]
               /\ token_hidden \in DOMAIN chmm.hidden_probs[t.i + 1][t.curr_hidden]
               /\ t.i < Len(chmm.observed_probs)
               /\ token_hidden \in DOMAIN chmm.observed_probs[t.i + 1]
               /\ token_observed \in DOMAIN chmm.observed_probs[t.i + 1][token_hidden]
            THEN [t EXCEPT
                    !.product = f64_mul(f64_mul(@,
                                    chmm.hidden_probs[t.i + 1][t.curr_hidden][token_hidden]),
                                    chmm.observed_probs[t.i + 1][token_hidden][token_observed]),
                    !.curr_hidden = token_hidden,
                    !.i = @ + 1]
            ELSE [t EXCEPT !.kind = "panicked"]

ConcurrentCorpora == {Line5, Join(<<Line2, Line5>>, "\n")}

ConcurrentArgs ==
    {NewArgs(2, None, None),
     NewArgs(2, Some(<<EmptyConstraint_new, EmptyConstraint_new>>),
                Some(<<MatchesConstraint_new(Mary), EmptyConstraint_new>>))}

ConcurrentQueries ==
    {Join(<<Tok(Mary, NNP), Tok(sees, VBZ)>>, " "),
     Join(<<Tok(Fred, NNP), Tok(sees, VBZ)>>, " "),
     Join(<<Tok(Ted, NNP), Tok(sees, VBZ)>>, " ")}

\* a thread calls sample_sequence(&self)
BeginSample(w) ==
    /\ pc = "trained"
    /\ threads[w].op = "idle"
    /\ threads' = [threads EXCEPT ![w] =
                      [NoThread EXCEPT !.op = "sample_sequence", !.kind = "running"]]
    /\ UNCHANGED <<pc, model, chmm_vars, call>>

\* an iteration that clears the transition row it has drawn from
SampleIterationConsuming(w) ==
    /\ pc = "trained"
    /\ threads[w].op = "sample_sequence"
    /\ Running(w)
    /\ LET t == threads[w]
       IN IF sample_returns(Self, t)
          THEN /\ threads' = [threads EXCEPT ![w].kind = "returned"]
               /\ UNCHANGED hidden_probs
          ELSE /\ \E hd \in Draws(hidden_probs[t.i + 1][t.curr_hidden]) :
                     LET hidden == next_token(hidden_probs[t.i + 1][t.curr_hidden],
                                              hd.order, hd.rand)
                     IN IF hidden \in DOMAIN observed_probs[t.i + 1]
                        THEN \E od \in Draws(observed_probs[t.i + 1][hidden]) :
                                threads' = [threads EXCEPT ![w] =
                                               sample_iteration(Self, t, hd, od)]
                        ELSE threads' = [threads EXCEPT ![w] =
                                            sample_iteration(Self, t, hd, hd)]
               /\ hidden_probs' = [hidden_probs EXCEPT ![t.i + 1][t.curr_hidden] =
                                      [k \in DOMAIN @ |-> Zero]]
    /\ UNCHANGED <<pc, model, hidden_markov_model, sequence_length, observed_probs,
                   hidden_constraints, observed_constraints, call>>

\* sample_sequence: one iteration of its loop, or its return
SampleIteration(w) ==
    /\ pc = "trained"
    /\ threads[w].op = "sample_sequence"
    /\ Running(w)
    /\ LET t == threads[w]
       IN IF sample_returns(Self, t)
          THEN threads' = [threads EXCEPT ![w].kind = "returned"]
          ELSE \E hd \in Draws(hidden_probs[t.i + 1][t.curr_hidden]) :
                  LET hidden == next_token(hidden_probs[t.i + 1][t.curr_hidden],
                                           hd.order, hd.rand)
                  IN IF hidden \in DOMAIN observed_probs[t.i + 1]
                     THEN \E od \in Draws(observed_probs[t.i + 1][hidden]) :
                             threads' = [threads EXCEPT ![w] =
                                            sample_iteration(Self, t, hd, od)]
                     ELSE threads' = [threads EXCEPT ![w] =
                                         sample_iteration(Self, t, hd, hd)]
    /\ UNCHANGED <<pc, model, chmm_vars, call>>

\* a thread calls get_sequence_probability(&self, sequence)
BeginQuery(w, sequence) ==
    /\ pc = "trained"
    /\ threads[w].op = "idle"
    /\ threads' = [threads EXCEPT ![w] =
                      [NoThread EXCEPT !.op = "get_sequence_probability",
                                       !.kind = "running", !.arg = sequence,
                                       !.tokens = split_whitespace(sequence)]]
    /\ UNCHANGED <<pc, model, chmm_vars, call>>

\* get_sequence_probability: one iteration of its loop, or its return
QueryIteration(w) ==
    /\ pc = "trained"
    /\ threads[w].op = "get_sequence_probability"
    /\ Running(w)
    /\ threads' = [threads EXCEPT ![w] = probability_iteration(Self, threads[w])]
    /\ UNCHANGED <<pc, model, chmm_vars, call>>

\* the caller has taken the result (or the thread has ended by its Panic)
Finish(w) ==
    /\ pc = "trained"
    /\ threads[w].kind \in {"returned", "panicked"}
    /\ threads' = [threads EXCEPT ![w] = NoThread]
    /\ UNCHANGED <<pc, model, chmm_vars, call>>

\* train(&mut self): no other borrow of the model is alive
TrainExclusive ==
    /\ \A w \in Workers : threads[w].op = "idle"
    /\ Train

NextConcurrent ==
    \/ \E data \in ConcurrentCorpora : NewHiddenMarkov(1, data)
    \/ \E args \in ConcurrentArgs : ConstrainedHiddenMarkov_new(args)
    \/ TrainExclusive
    \/ \E w \in Workers : BeginSample(w)
    \/ \E w \in Workers : SampleIteration(w)
    \/ \E w \in Workers : \E sequence \in ConcurrentQueries : BeginQuery(w, sequence)
    \/ \E w \in Workers : QueryIteration(w)
    \/ \E w \in Workers : Finish(w)

SpecConcurrent == Init /\ [][NextConcurrent]_vars

----------------------------------------------------------------------------
(* C15: concurrent queries.                                                *)

\* C15: whatever the interleaving of the calls in progress after train(), the
\* tables equal what train() computes from the base model and the constraints,
\* every returned sample is the string the call returns alone with the same
\* draws, and every query ends as it does alone, with the same value.
ConcurrentCallsIsolated ==
    Trained =>
        /\ hidden_probs = ConstrainedHiddenMarkov_train(Self).hidden_probs
        /\ observed_probs = ConstrainedHiddenMarkov_train(Self).observed_probs
        /\ \A w \in Workers :
              LET t == threads[w]
              IN /\ (t.op = "sample_sequence" /\ t.kind = "returned") =>
                        /\ t.sequence = sample_sequence_with(Self, t.draws,
                              [NoThread EXCEPT !.op = "sample_sequence", !.kind = "running"])
                        /\ t.sequence \in sample_sequence(Self)
                 /\ (t.op = "get_sequence_probability" /\ t.kind # "running") =>
                        LET alone == get_sequence_probability(Self, t.arg)
                        IN IF alone.kind = "panic" THEN t.kind = "panicked"
                           ELSE t.kind = "returned" /\ t.product = alone.value

\* a sample of two tokens has returned while a query on the same model is
\* between its first and its second token
ConcurrentCallsWitness ==
    /\ Trained
    /\ \E w \in Workers : \E v \in Workers \ {w} :
          /\ threads[w].op = "sample_sequence"
          /\ threads[w].kind = "returned"
          /\ Len(threads[w].draws) = 4
          /\ threads[v].op = "get_sequence_probability"
          /\ Running(v)
          /\ threads[v].i = 1

----------------------------------------------------------------------------
(* The phases of train as operations: the private methods train calls one  *)
(* after the other, which the tests of the module also call one by one.    *)
(* pc goes "built", "cleared", "duplicated", "masked", "pruned" (and        *)
(* "pruned again" when remove_dead_states runs a second time), "trained".   *)

Phase(next_pc, op, chmm) ==
    /\ pc' = next_pc
    /\ hidden_probs' = chmm.hidden_probs
    /\ observed_probs' = chmm.observed_probs
    /\ call' = [NoCall EXCEPT !.op = op, !.kind = "ok"]
    /\ UNCHANGED <<model, hidden_markov_model, sequence_length,
                   hidden_constraints, observed_constraints, threads>>

\* self.clear_probs()
ClearProbs ==
    /\ pc = "built"
    /\ Phase("cleared", "clear_probs", ConstrainedHiddenMarkov_clear_probs(Self))

\* self.duplicate_matrices()
DuplicateMatrices ==
    /\ pc = "cleared"
    /\ Phase("duplicated", "duplicate_matrices", duplicate_matrices(Self))

\* self.remove_constrain_violating_states()
RemoveConstrainViolatingStates ==
    /\ pc = "duplicated"
    /\ Phase("masked", "remove_constrain_violating_states",
             remove_constrain_violating_states(Self))

\* self.remove_dead_states()
RemoveDeadStates ==
    /\ pc \in {"masked", "pruned"}
    /\ Phase(IF pc = "masked" THEN "pruned" ELSE "pruned again", "remove_dead_states",
             remove_dead_states(Self))

\* self.renormalize(); Panic on a transition target without emission row
Renormalize ==
    /\ pc \in {"pruned", "pruned again"}
    /\ LET renormalized == renormalize(Self)
       IN /\ pc' = IF renormalized.panicked THEN "aborted" ELSE "trained"
          /\ hidden_probs' = renormalized.hidden_probs
          /\ observed_probs' = renormalized.observed_probs
          /\ call' = [NoCall EXCEPT !.op = "renormalize",
                                    !.kind = IF renormalized.panicked THEN "panic" ELSE "ok"]
    /\ UNCHANGED <<model, hidden_markov_model, sequence_length,
                   hidden_constraints, observed_constraints, threads>>

NextPhases ==
    \/ \E data \in Corpora : NewHiddenMarkov(1, data)
    \/ \E args \in ConstructorArgs : ConstrainedHiddenMarkov_new(args)
    \/ ClearProbs
    \/ DuplicateMatrices
    \/ RemoveConstrainViolatingStates
    \/ RemoveDeadStates
    \/ Renormalize

SpecPhases == Init /\ [][NextPhases]_vars

Positions == 1..sequence_length

\* the hidden keys without emission at a position: their row of observed_probs
\* sums to 0
EmissionDead(observed, p) == get_zero_sum_outer_keys(observed[p])

\* the hidden keys without continuation after a position: their row of the next
\* position's hidden_probs sums to 0, or they have no row there
TransitionDead(hidden, p, t) ==
    \/ t \notin DOMAIN hidden[p + 1]
    \/ values_sum(hidden[p + 1][t]) = Zero

----------------------------------------------------------------------------
(* C16: the frame of train.                                                *)

\* the weights of the tables h2 that differ from those of h1 are at targets
\* for which changed(p, t) holds
ChangesOnlyAt(h1, h2, changed(_, _)) ==
    /\ Len(h2) = Len(h1)
    /\ \A p \in 1..Len(h1) :
          /\ DOMAIN h2[p] = DOMAIN h1[p]
          /\ \A c \in DOMAIN h1[p] :
                /\ DOMAIN h2[p][c] = DOMAIN h1[p][c]
                /\ \A t \in DOMAIN h1[p][c] :
                      h2[p][c][t] # h1[p][c][t] => changed(p, t)

FailsHidden(p, t) == ~is_satisfied_by_state(hidden_constraints[p], t)
FailsObserved(p, s) == ~is_satisfied_by_state(observed_constraints[p], s)
Never(p, t) == FALSE
DeadAfterPruning(p, t) ==
    \/ t \in EmissionDead(observed_probs, p)
    \/ p < Len(hidden_probs') /\ TransitionDead(hidden_probs', p, t)

\* C16: no phase of train writes the base model; duplication gives every
\* position the base tables; masking changes a weight only at a position whose
\* own constraint its target fails; pruning changes a transition weight only at
\* a position where its own target is dead (no emission at that position, or no
\* continuation at the next one) and no emission weight; renormalization
\* rescales the emission rows of a position by that position's own row sums;
\* the tables the phases end with are those of train.
TrainFrame ==
    [][/\ pc \in {"built", "cleared", "duplicated", "masked", "pruned", "pruned again"} =>
             /\ hidden_markov_model' = hidden_markov_model
             /\ model' = model
       /\ pc' = "duplicated" =>
             \A p \in Positions :
                 /\ hidden_probs'[p] = hidden_markov_model.hidden_probs
                 /\ observed_probs'[p] = hidden_markov_model.observed_probs
       /\ pc' = "masked" =>
             /\ ChangesOnlyAt(hidden_probs, hidden_probs', FailsHidden)
             /\ ChangesOnlyAt(observed_probs, observed_probs', FailsObserved)
       /\ pc' \in {"pruned", "pruned again"} =>
             /\ ChangesOnlyAt(hidden_probs, hidden_probs', DeadAfterPruning)
             /\ ChangesOnlyAt(observed_probs, observed_probs', Never)
       /\ (pc \in {"pruned", "pruned again"} /\ pc' = "trained") =>
             \A p \in Positions :
                 observed_probs'[p] =
                     [k \in DOMAIN observed_probs[p] |->
                         renormalize_observed_row(observed_probs[p][k])]
       /\ pc' = "trained" =>
             /\ hidden_probs' = ConstrainedHiddenMarkov_train(Self).hidden_probs
             /\ observed_probs' = ConstrainedHiddenMarkov_train(Self).observed_probs
      ]_vars

\* after the phases of train one position has lost an emission weight that
\* another position has kept, and the base model is the one passed to new
TrainFrameWitness ==
    /\ pc = "trained"
    /\ call.op = "renormalize"
    /\ hidden_markov_model = model
    /\ \E p \in Positions : \E q \in Positions :
          \E h \in DOMAIN observed_probs[p] : \E s \in DOMAIN observed_probs[p][h] :
              /\ observed_probs[p][h][s] = Zero
              /\ observed_probs[q][h][s] # Zero

----------------------------------------------------------------------------
(* C17: Phase B, the mask.                                                 *)

\* the table of a position is the base table with the weights of the targets
\* that fail the constraint set to 0
IsMasked(table, base, constraint) ==
    /\ DOMAIN table = DOMAIN base
    /\ \A c \in DOMAIN base :
          /\ DOMAIN table[c] = DOMAIN base[c]
          /\ \A t \in DOMAIN base[c] :
                table[c][t] = IF is_satisfied_by_state(constraint, t) THEN base[c][t]
                              ELSE Zero

\* C17: after duplication and masking, at every position, hidden_probs[i][c][t]
\* is 0 if t fails hidden_constraints[i] and the base weight otherwise, and
\* observed_probs[i][c][s] is 0 if s fails observed_constraints[i] and the base
\* weight otherwise, whatever the context c.
MaskedTables ==
    pc = "masked" =>
        /\ Len(hidden_probs) = sequence_length
        /\ Len(observed_probs) = sequence_length
        /\ \A p \in Positions :
              /\ IsMasked(hidden_probs[p], hidden_markov_model.hidden_probs,
                          hidden_constraints[p])
              /\ IsMasked(observed_probs[p], hidden_markov_model.observed_probs,
                          observed_constraints[p])

\* a masked position where a transition row and an emission row have each a
\* weight set to 0 and a weight kept
MaskedTablesWitness ==
    /\ pc = "masked"
    /\ \E p \in Positions :
          /\ \E c \in DOMAIN hidden_probs[p] : \E t, u \in DOMAIN hidden_probs[p][c] :
                /\ hidden_probs[p][c][t] = Zero
                /\ hidden_markov_model.hidden_probs[c][t] # Zero
                /\ hidden_probs[p][c][u] # Zero
          /\ \E c \in DOMAIN observed_probs[p] : \E t, u \in DOMAIN observed_probs[p][c] :
                /\ observed_probs[p][c][t] = Zero
                /\ hidden_markov_model.observed_probs[c][t] # Zero
                /\ observed_probs[p][c][u] # Zero

----------------------------------------------------------------------------
(* C18: Phase C, step 1.                                                   *)

RemoveDeadStatesStep == pc = "masked" /\ pc' = "pruned"

\* C18: when remove_dead_states has run, at every position every transition
\* into a hidden key whose emission row at that position sums to 0 has weight 0,
\* and the first loop has left every transition into a hidden key with a
\* positive emission sum as it was.
EmissionDeadPruned ==
    [][RemoveDeadStatesStep =>
          \A p \in Positions : \A c \in DOMAIN hidden_probs[p] :
              \A t \in DOMAIN hidden_probs[p][c] :
                  /\ t \in EmissionDead(observed_probs', p) =>
                         hidden_probs'[p][c][t] = Zero
                  /\ (/\ t \in DOMAIN observed_probs[p]
                      /\ f64_gt(values_sum(observed_probs[p][t]), Zero)) =>
                         /\ remove_emission_dead(Self).hidden_probs[p][c][t]
                               = hidden_probs[p][c][t]
                         /\ \/ hidden_probs'[p][c][t] = hidden_probs[p][c][t]
                            \/ p < sequence_length /\ TransitionDead(hidden_probs', p, t)
      ]_vars

\* remove_dead_states has run and a position has a transition zeroed for its
\* emission-dead target next to a kept transition with a positive emission sum
EmissionDeadPrunedWitness ==
    /\ pc = "pruned"
    /\ \E c \in DOMAIN hidden_probs[sequence_length] :
          \E t, u \in DOMAIN hidden_probs[sequence_length][c] :
              /\ t \in EmissionDead(observed_probs, sequence_length)
              /\ hidden_markov_model.hidden_probs[c][t] # Zero
              /\ is_satisfied_by_state(hidden_constraints[sequence_length], t)
              /\ hidden_probs[sequence_length][c][t] = Zero
              /\ u \notin EmissionDead(observed_probs, sequence_length)
              /\ hidden_probs[sequence_length][c][u] # Zero

----------------------------------------------------------------------------
(* C19: Phase C, step 2.                                                   *)

\* C19: when remove_dead_states has run, at every position but the last every
\* transition into a hidden key whose row at the next position sums to 0, or
\* which has no row there, has weight 0; the second loop writes nothing at the
\* last position, whose table is the one the first loop has left.
TransitionDeadPruned ==
    [][RemoveDeadStatesStep =>
          /\ \A p \in 1..(sequence_length - 1) : \A c \in DOMAIN hidden_probs'[p] :
                \A t \in DOMAIN hidden_probs'[p][c] :
                    TransitionDead(hidden_probs', p, t) => hidden_probs'[p][c][t] = Zero
          /\ hidden_probs'[sequence_length]
                = remove_emission_dead(Self).hidden_probs[sequence_length]
      ]_vars

\* remove_dead_states has run; before the last position it has zeroed a
\* transition into a key with an all-zero row at the next position and one into
\* a key without row there, their targets having an emission; at the last
\* position transitions into keys without row are kept
TransitionDeadPrunedWitness ==
    /\ pc = "pruned"
    /\ sequence_length > 2
    /\ \E p \in 1..(sequence_length - 1) :
          \E c, d \in DOMAIN hidden_probs[p] :
              \E t \in DOMAIN hidden_probs[p][c] : \E u \in DOMAIN hidden_probs[p][d] :
                  /\ t \in DOMAIN hidden_probs[p + 1]
                  /\ values_sum(hidden_probs[p + 1][t]) = Zero
                  /\ t \notin EmissionDead(observed_probs, p)
                  /\ is_satisfied_by_state(hidden_constraints[p], t)
                  /\ hidden_markov_model.hidden_probs[c][t] # Zero
                  /\ hidden_probs[p][c][t] = Zero
                  /\ u \notin DOMAIN hidden_probs[p + 1]
                  /\ u \notin EmissionDead(observed_probs, p)
                  /\ hidden_markov_model.hidden_probs[d][u] # Zero
                  /\ hidden_probs[p][d][u] = Zero
    /\ \E c \in DOMAIN hidden_probs[sequence_length] :
          \E t \in DOMAIN hidden_probs[sequence_length][c] :
              /\ t \notin DOMAIN hidden_probs[sequence_length]
              /\ hidden_probs[sequence_length][c][t] # Zero

----------------------------------------------------------------------------
(* C20: one backward sweep is enough.                                      *)

\* every nonzero transition weight leads to a key with a positive emission sum
\* at its position and, before the last position, with a row at the next
\* position that is not all zero
NoDeadTarget(hidden, observed) ==
    \A p \in 1..Len(hidden) : \A c \in DOMAIN hidden[p] : \A t \in DOMAIN hidden[p][c] :
        hidden[p][c][t] # Zero =>
            /\ t \in DOMAIN observed[p]
            /\ f64_gt(values_sum(observed[p][t]), Zero)
            /\ p < Len(hidden) =>
                  /\ t \in DOMAIN hidden[p + 1]
                  /\ values_sum(hidden[p + 1][t]) # Zero

\* C20: after one run of remove_dead_states no nonzero transition weight has a
\* dead target, and a second run on these tables changes no weight.
SingleSweepIsFixedPoint ==
    [][/\ RemoveDeadStatesStep => NoDeadTarget(hidden_probs', observed_probs')
       /\ (pc = "pruned" /\ pc' = "pruned again") =>
             /\ hidden_probs' = hidden_probs
             /\ observed_probs' = observed_probs
      ]_vars

\* remove_dead_states has run twice on tables where the sweep had to carry a
\* dead end over two positions: a transition at the first position was zeroed
\* because the row of its target at the second position became all zero by the
\* sweep itself
SingleSweepWitness ==
    /\ pc = "pruned again"
    /\ sequence_length > 2
    /\ \E p \in 1..(sequence_length - 2) :
          \E c \in DOMAIN hidden_probs[p] : \E t \in DOMAIN hidden_probs[p][c] :
              LET masked == remove_emission_dead(remove_constrain_violating_states(
                               duplicate_matrices(ConstrainedHiddenMarkov_clear_probs(Self))))
              IN /\ masked.hidden_probs[p][c][t] # Zero
                 /\ hidden_probs[p][c][t] = Zero
                 /\ t \in DOMAIN masked.hidden_probs[p + 1]
                 /\ values_sum(masked.hidden_probs[p + 1][t]) # Zero
                 /\ values_sum(hidden_probs[p + 1][t]) = Zero

----------------------------------------------------------------------------
(* C21: alpha at the last position.                                        *)

RenormalizeStep == pc \in {"pruned", "pruned again"} /\ pc' = "trained"

\* the sum of the emission weights of a hidden key at a position
EmissionSum(observed, p, key) == values_sum(observed[p][key])

\* the sum over the targets of a row of (emission sum of the target) * weight
WeightedRowSum(hidden, observed, p, key) ==
    values_sum([t \in DOMAIN hidden[p][key] |->
                   f64_mul(EmissionSum(observed, p, t), hidden[p][key][t])])

\* C21 as stated: the alpha renormalize computes at the last position for a
\* context key of hidden_probs equals the beta of the same key, the sum of its
\* masked emission weights.
LastAlphaIsBeta ==
    [][RenormalizeStep =>
          LET st == renormalize_state(Self)
          IN \A key \in DOMAIN hidden_probs[sequence_length] :
                /\ key \in DOMAIN st.betas[sequence_length]
                /\ st.alphas[sequence_length][key] = st.betas[sequence_length][key]
      ]_vars

\* C21 amended: the alpha renormalize computes at the last position for a
\* context key is the sum, over the targets of its row, of the target's beta
\* (the sum of the target's masked emission weights) times the transition
\* weight, and beta is computed for the keys of observed_probs.
LastAlphaIsWeightedSum ==
    [][RenormalizeStep =>
          LET st == renormalize_state(Self)
          IN /\ DOMAIN st.alphas[sequence_length] = DOMAIN hidden_probs[sequence_length]
             /\ DOMAIN st.betas[sequence_length] = DOMAIN observed_probs[sequence_length]
             /\ \A key \in DOMAIN observed_probs[sequence_length] :
                   st.betas[sequence_length][key]
                       = EmissionSum(observed_probs, sequence_length, key)
             /\ \A key \in DOMAIN hidden_probs[sequence_length] :
                   st.alphas[sequence_length][key]
                       = WeightedRowSum(hidden_probs, observed_probs, sequence_length, key)
      ]_vars

\* renormalize has run on tables whose last position has a context key with a
\* positive alpha that differs from the positive beta of the same key
LastAlphaWitness ==
    /\ pc = "trained"
    /\ call.op = "renormalize"
    /\ LET pruned == remove_dead_states(remove_constrain_violating_states(
                         duplicate_matrices(ConstrainedHiddenMarkov_clear_probs(Self))))
           st == renormalize_state(pruned)
       IN \E key \in DOMAIN pruned.hidden_probs[sequence_length] :
             /\ key \in DOMAIN st.betas[sequence_length]
             /\ st.betas[sequence_length][key] # Zero
             /\ st.alphas[sequence_length][key] # Zero
             /\ st.alphas[sequence_length][key] # st.betas[sequence_length][key]

----------------------------------------------------------------------------
(* The atoms of the constraint parser: str_to_constraint applied to the     *)
(* strings made of a head, a body and a tail of the pools below.            *)

AtomHeads == {<<>>, <<"N", "C">>, <<"S", "W", "(">>, <<"R", "W", "(">>, <<"S", "W">>,
              <<"n", "c">>, <<"s", "w", "(">>, <<" ", "N", "C">>}
AtomBodies == {<<>>, <<"t">>, Ted, red, <<"A", "A">>, <<"t", ")", "x">>}
AtomTails == {<<>>, <<")">>, <<")", "s">>, <<"(">>}

Atoms == {head \o body \o tail : head \in AtomHeads, body \in AtomBodies, tail \in AtomTails}

\* str_to_constraint(str), as add_constraint and add_multi_constraint call it
StrToConstraint(str) ==
    /\ pc = "start"
    /\ LET r == str_to_constraint(str)
       IN /\ pc' = IF r.panicked THEN "aborted" ELSE "parsed"
          /\ call' = [op |-> "str_to_constraint", str |-> str,
                      kind |-> IF r.panicked THEN "panic" ELSE "ok",
                      constraint |-> r.constraint]
    /\ UNCHANGED <<model, chmm_vars, threads>>

NextAtoms == \E str \in Atoms : StrToConstraint(str)

SpecAtoms == Init /\ [][NextAtoms]_vars

----------------------------------------------------------------------------
(* C22: the atoms.                                                         *)

\* the atom is head, a non-empty x, and a closing parenthesis
IsCall(str, head) ==
    /\ Len(str) >= Len(head) + 2
    /\ SubSeq(str, 1, Len(head)) = head
    /\ str[Len(str)] = ")"

CallArgument(str, head) == SubSeq(str, Len(head) + 1, Len(str) - 1)

\* C22: SW(x) yields StartsWithLetter(first character of x), RW(word) yields
\* RhymesWith(word), NC yields Empty, and every other atom, those that only
\* begin with NC, SW( or RW( included, yields Matches of the atom, never an
\* error.
AtomMapping ==
    call.op = "str_to_constraint" =>
        /\ call.kind = "ok"
        /\ call.constraint =
              IF IsCall(call.str, <<"S", "W", "(">>)
              THEN StartsWithLetterConstraint_new(CallArgument(call.str, <<"S", "W", "(">>)[1])
              ELSE IF IsCall(call.str, <<"R", "W", "(">>)
              THEN RhymesWithConstraint_new(CallArgument(call.str, <<"R", "W", "(">>))
              ELSE IF call.str = <<"N", "C">> THEN EmptyConstraint_new
              ELSE MatchesConstraint_new(call.str)

----------------------------------------------------------------------------
(* C23.  The windows of base training, as counts.                          *)

\* the tables of counts, before normalize
Counted(markov_order, lines) ==
    process_lines([markov_order |-> markov_order, hidden_probs |-> <<>>,
                   observed_probs |-> <<>>, panicked |-> FALSE], lines, 1)

\* the sum of every count of a table
TableTotal(map) == values_sum([outer \in DOMAIN map |-> values_sum(map[outer])])

RECURSIVE SumOfWindows(_, _, _)
SumOfWindows(lines, k, i) ==
    IF i > Len(lines) THEN 0
    ELSE (Len(split_whitespace(lines[i])) \div k) + SumOfWindows(lines, k, i + 1)

\* C23: a line of n tokens adds n \div markov_order transition counts and as
\* many emission counts; the counts of the corpus are one per window of
\* markov_order tokens, the windows not overlapping and a shorter rest left out,
\* the first window of a line counted from markov_order START labels joined by
\* spaces and each later one from the hidden labels of the window before it.
OneCountPerWindow ==
    (pc = "base" /\ call.op = "HiddenMarkov::new") =>
        LET k == call.markov_order
            lines == split(call.data, "\n")
            counted == Counted(k, lines)
            w == CountedWindows(call.data, k)
        IN /\ \A l \in 1..Len(lines) :
                 LET n == Len(split_whitespace(lines[l]))
                     one == Counted(k, <<lines[l]>>)
                     windows == Windows(lines[l], k)
                 IN /\ TableTotal(one.hidden_probs) = Rat(n \div k, 1)
                    /\ TableTotal(one.observed_probs) = Rat(n \div k, 1)
                    /\ n >= k =>
                          /\ DOMAIN one.hidden_probs =
                                {Join([i \in 1..k |-> START_TOKEN], " ")} \cup
                                   {HiddenOf(windows[j]) : j \in 1..((n \div k) - 1)}
                          /\ DOMAIN one.observed_probs =
                                {HiddenOf(windows[j]) : j \in 1..(n \div k)}
           /\ TableTotal(counted.hidden_probs) = Rat(SumOfWindows(lines, k, 1), 1)
           /\ TableTotal(counted.observed_probs) = Rat(SumOfWindows(lines, k, 1), 1)
           /\ DOMAIN counted.hidden_probs = {x.context : x \in w}
           /\ \A c \in DOMAIN counted.hidden_probs :
                 /\ DOMAIN counted.hidden_probs[c] = {x.hidden : x \in {y \in w : y.context = c}}
                 /\ \A t \in DOMAIN counted.hidden_probs[c] :
                       counted.hidden_probs[c][t] =
                           Rat(Cardinality({x \in w : x.context = c /\ x.hidden = t}), 1)
           /\ DOMAIN counted.observed_probs = {x.hidden : x \in w}
           /\ \A h \in DOMAIN counted.observed_probs :
                 /\ DOMAIN counted.observed_probs[h] = {x.observed : x \in {y \in w : y.hidden = h}}
                 /\ \A o \in DOMAIN counted.observed_probs[h] :
                       counted.observed_probs[h][o] =
                           Rat(Cardinality({x \in w : x.hidden = h /\ x.observed = o}), 1)
           /\ model = normalize(counted)

\* order 2 over a line of three tokens, whose last token is left out, and a
\* line of four, whose second window is counted from the first
OneCountPerWindowWitness ==
    /\ pc = "base" /\ call.op = "HiddenMarkov::new"
    /\ call.markov_order = 2
    /\ \E l, m \in 1..Len(split(call.data, "\n")) :
          /\ Len(split_whitespace(split(call.data, "\n")[l])) = 3
          /\ Len(split_whitespace(split(call.data, "\n")[m])) = 4
    /\ TableTotal(Counted(2, split(call.data, "\n")).hidden_probs) = Rat(3, 1)

----------------------------------------------------------------------------
(* C24.  The shape of a sampled sequence.                                  *)

\* the hidden label position i (from 1) of the last sample was drawn from
SampledContext(i) == IF i = 1 THEN START_TOKEN ELSE SampledTokens[i - 1][2]

\* C24: a sampled sequence is the tokens observed:hidden drawn position by
\* position from START, each from the rows of its position; it has at most
\* sequence_length tokens, one space between two tokens and, at full length,
\* no space after the last; it is shorter only when the walk came to a
\* context that is no key of the position's hidden_probs, or whose row gave
\* no label.
SampleShape ==
    (Trained /\ call.op = "sample_sequence") =>
        LET m == Len(SampledTokens)
        IN /\ m <= sequence_length
           /\ call.out =
                 Join([i \in 1..m |-> Tok(SampledTokens[i][1], SampledTokens[i][2])], " ")
                    \o (IF 0 < m /\ m < sequence_length THEN <<" ">> ELSE <<>>)
           /\ \A i \in 1..m :
                 /\ SampledContext(i) \in DOMAIN hidden_probs[i]
                 /\ SampledTokens[i][2] \in DOMAIN hidden_probs[i][SampledContext(i)]
                 /\ SampledTokens[i][2] \in DOMAIN observed_probs[i]
                 /\ SampledTokens[i][1] \in DOMAIN observed_probs[i][SampledTokens[i][2]]
           /\ m < sequence_length =>
                 \/ SampledContext(m + 1) \notin DOMAIN hidden_probs[m + 1]
                 \/ AllZero(hidden_probs[m + 1][SampledContext(m + 1)])

\* a sample of four tokens
SampleShapeWitness ==
    /\ Trained /\ call.op = "sample_sequence"
    /\ sequence_length = 4
    /\ Len(SampledTokens) = 4
    /\ Len(call.out) > 0 /\ call.out[Len(call.out)] # " "

----------------------------------------------------------------------------
(* C25.  Samples of a satisfiable model have full length.                  *)

\* the START row of the first position has a positive weight
StartRowAlive ==
    /\ START_TOKEN \in DOMAIN hidden_probs[1]
    /\ ~AllZero(hidden_probs[1][START_TOKEN])

\* C25: after train(), when the START row of hidden_probs[0] has a non-zero
\* weight, every sequence sample_sequence can return, whatever the draws,
\* has exactly sequence_length tokens: no early return, no emission left out.
FullLengthSamples ==
    (Trained /\ StartRowAlive) =>
        /\ \A sequence \in sample_sequence(Self) :
              Len(split_whitespace(sequence)) = sequence_length
        /\ call.op = "sample_sequence" =>
              /\ Len(SampledTokens) = sequence_length
              /\ \A i \in 1..sequence_length :
                    /\ SampledContext(i) \in DOMAIN hidden_probs[i]
                    /\ SampledTokens[i][2] \in DOMAIN observed_probs[i]

\* a full-length sample of a model in which pruning left a row without weight
\* and a row with a target of weight zero beside a positive one
FullLengthSamplesWitness ==
    /\ Trained /\ StartRowAlive /\ call.op = "sample_sequence"
    /\ Len(SampledTokens) = sequence_length
    /\ \E i \in 1..sequence_length : \E c \in DOMAIN hidden_probs[i] :
          AllZero(hidden_probs[i][c])
    /\ \E i \in 1..sequence_length : \E c \in DOMAIN hidden_probs[i] :
          \E t, u \in DOMAIN hidden_probs[i][c] :
              hidden_probs[i][c][t] = Zero /\ hidden_probs[i][c][u] # Zero

----------------------------------------------------------------------------
(* Base training over corpora with unusual tokens: a token without ':',    *)
(* a token that ends with ':' and the START token itself.                  *)

UnusualTokenPool == {Tok(Mary, NNP), Mary, Tok(Mary, <<>>), START_TOKEN}

\* lines long enough for a window and a rest at every order
UnusualLines ==
    {Join(tokens, " ") : tokens \in SeqsOver(UnusualTokenPool, 0, MaxOrder + 1)}

\* a line alone, or after a line of the tests
UnusualCorpora == UnusualLines \cup {Join(<<Line2, line>>, "\n") : line \in UnusualLines}

NextUnusual ==
    \E markov_order \in 1..MaxOrder : \E data \in UnusualCorpora :
        NewHiddenMarkov(markov_order, data)

SpecUnusual == Init /\ [][NextUnusual]_vars

----------------------------------------------------------------------------
(* C26.  Tokens without ':'.                                               *)

\* the tokens of every line of the corpus
TokensOfCorpus(data) ==
    UNION {{split_whitespace(split(data, "\n")[l])[j] :
               j \in 1..Len(split_whitespace(split(data, "\n")[l]))} :
           l \in 1..Len(split(data, "\n"))}

HasColon(token) == \E i \in 1..Len(token) : token[i] = ":"

\* C26: HiddenMarkov::new on a corpus with a token without ':' fails and
\* leaves no model; a token equal to START splits to (START, START) and a
\* token x: to (x, empty hidden label), neither with an error.
MalformedTokenFails ==
    call.op = "HiddenMarkov::new" =>
        /\ (\E token \in TokensOfCorpus(call.data) : token # START_TOKEN /\ ~HasColon(token)) =>
              /\ call.kind = "panic"
              /\ pc = "aborted"
              /\ model = NoModel
        /\ \A token \in TokensOfCorpus(call.data) :
              /\ token = START_TOKEN =>
                    split_token_ok(token) /\ split_token(token) = <<START_TOKEN, START_TOKEN>>
              /\ (HasColon(token) /\ token[Len(token)] = ":"
                    /\ ~HasColon(SubSeq(token, 1, Len(token) - 1))) =>
                    /\ split_token_ok(token)
                    /\ split_token(token) = <<SubSeq(token, 1, Len(token) - 1), <<>>>>

----------------------------------------------------------------------------
(* C27.  train() is idempotent.                                            *)

\* C27: train() on a trained model, whatever calls of sample_sequence or
\* get_sequence_probability came between, leaves hidden_probs and
\* observed_probs exactly as they were, each of sequence_length tables.
TrainIsIdempotent ==
    [][(Trained /\ call'.op = "train") =>
          /\ pc' = "trained"
          /\ hidden_probs' = hidden_probs
          /\ observed_probs' = observed_probs
          /\ Len(hidden_probs') = sequence_length
          /\ Len(observed_probs') = sequence_length]_vars

\* a sampled model with tables that differ from the base model's, which
\* train() rebuilds from the base model to the same tables
TrainIsIdempotentWitness ==
    /\ Trained /\ call.op = "sample_sequence"
    /\ Len(hidden_probs) = sequence_length
    /\ \E i \in 1..sequence_length :
          /\ hidden_probs[i] # hidden_markov_model.hidden_probs
          /\ observed_probs[i] # hidden_markov_model.observed_probs
    /\ ConstrainedHiddenMarkov_train(Self).hidden_probs = hidden_probs
    /\ ConstrainedHiddenMarkov_train(Self).observed_probs = observed_probs

----------------------------------------------------------------------------
(* C28.  The phases of train() keep every key.                             *)

SameKeys(table, base) ==
    /\ DOMAIN table = DOMAIN base
    /\ \A outer \in DOMAIN table : DOMAIN table[outer] = DOMAIN base[outer]

InUnitInterval(x) == ~f64_gt(Zero, x) /\ ~f64_gt(x, One)

WeightsInUnitInterval(table) ==
    \A outer \in DOMAIN table : \A inner \in DOMAIN table[outer] :
        InUnitInterval(table[outer][inner])

\* C28: after duplication and after each of masking, dead-state elimination
\* and renormalization, the tables of every position have the context keys
\* and, per context, the target keys of the base model's tables; an entry
\* that fails its constraint is present with weight 0, and every weight is
\* in [0, 1].
KeysPreserved ==
    pc \in {"duplicated", "masked", "pruned", "pruned again", "trained"} =>
        /\ Len(hidden_probs) = sequence_length
        /\ Len(observed_probs) = sequence_length
        /\ \A i \in Positions :
              /\ SameKeys(hidden_probs[i], hidden_markov_model.hidden_probs)
              /\ SameKeys(observed_probs[i], hidden_markov_model.observed_probs)
              /\ WeightsInUnitInterval(hidden_probs[i])
              /\ WeightsInUnitInterval(observed_probs[i])
              /\ pc # "duplicated" =>
                    /\ \A outer \in DOMAIN hidden_probs[i] :
                          \A inner \in DOMAIN hidden_markov_model.hidden_probs[outer] :
                              ~is_satisfied_by_state(hidden_constraints[i], inner) =>
                                  /\ inner \in DOMAIN hidden_probs[i][outer]
                                  /\ hidden_probs[i][outer][inner] = Zero
                    /\ \A outer \in DOMAIN observed_probs[i] :
                          \A inner \in DOMAIN hidden_markov_model.observed_probs[outer] :
                              ~is_satisfied_by_state(observed_constraints[i], inner) =>
                                  /\ inner \in DOMAIN observed_probs[i][outer]
                                  /\ observed_probs[i][outer][inner] = Zero

\* a renormalized model with entries of weight 0 where the base model has
\* positive weights, some masked and some pruned as dead
KeysPreservedWitness ==
    /\ pc = "trained" /\ call.op = "renormalize"
    /\ \E i \in Positions : \E outer \in DOMAIN observed_probs[i] :
          \E inner \in DOMAIN observed_probs[i][outer] :
              /\ observed_probs[i][outer][inner] = Zero
              /\ hidden_markov_model.observed_probs[outer][inner] # Zero
    /\ \E i \in Positions : \E outer \in DOMAIN hidden_probs[i] :
          \E inner \in DOMAIN hidden_probs[i][outer] :
              /\ hidden_probs[i][outer][inner] = Zero
              /\ hidden_markov_model.hidden_probs[outer][inner] # Zero
              /\ is_satisfied_by_state(hidden_constraints[i], inner)
    /\ \E i \in Positions : \E outer \in DOMAIN hidden_probs[i] :
          \E inner \in DOMAIN hidden_probs[i][outer] :
              /\ hidden_probs[i][outer][inner] # Zero
              /\ hidden_probs[i][outer][inner] # One

----------------------------------------------------------------------------
(* C29.  Constraints no sequence satisfies.                                *)

Unsatisfiable == SatisfyingSequences = {}

----------------------------------------------------------------------------
(* C30.  Every transition target has an emission row.                      *)

\* a constrained model of sequence_length n over the base model, no constraint
Unconstrained(hmm, n) ==
    [hidden_markov_model |-> hmm, sequence_length |-> n,
     hidden_probs |-> <<>>, observed_probs |-> <<>>,
     hidden_constraints |-> [i \in 1..n |-> EmptyConstraint_new],
     observed_constraints |-> [i \in 1..n |-> EmptyConstraint_new],
     panicked |-> FALSE]

\* C30: in a base model every target key of a row of hidden_probs is a
\* context key of observed_probs, so that at every position renormalize finds
\* betas[i][target] for every target and train() ends without a missing key.
TargetsHaveEmissionRows ==
    (pc = "base" /\ call.op = "HiddenMarkov::new") =>
        /\ \A context \in DOMAIN model.hidden_probs :
              \A target \in DOMAIN model.hidden_probs[context] :
                  target \in DOMAIN model.observed_probs
        /\ LET pruned == remove_dead_states(remove_constrain_violating_states(
                             duplicate_matrices(Unconstrained(model, MaxSeqLen))))
               betas == renormalize_state(pruned).betas
           IN /\ ~renormalize_panics(pruned)
              /\ ~renormalize(pruned).panicked
              /\ \A i \in 1..MaxSeqLen :
                    \A context \in DOMAIN pruned.hidden_probs[i] :
                        \A target \in DOMAIN pruned.hidden_probs[i][context] :
                            target \in DOMAIN betas[i]

\* a base model of order 2 with a target that is no context of hidden_probs
TargetsHaveEmissionRowsWitness ==
    /\ pc = "base" /\ call.op = "HiddenMarkov::new"
    /\ call.markov_order = 2
    /\ Cardinality(DOMAIN model.observed_probs) >= 3
    /\ \E context \in DOMAIN model.hidden_probs :
          \E target \in DOMAIN model.hidden_probs[context] :
              target \notin DOMAIN model.hidden_probs

====
